---- MODULE Spec2Model ----
(***************************************************************************)
(* Knowledge index of the Nous assistant: the path policy                  *)
(* (modules/path_policies.py) and the SQLite-backed DataIndexer            *)
(* (modules/data_indexer.py): incremental rebuild, cancellation, search.   *)
(*                                                                         *)
(* A path is the sequence of its components below the filesystem root;     *)
(* << >> is "/" itself.                                                    *)
(***************************************************************************)
EXTENDS Integers, Sequences, FiniteSets, TLC

\* ------------------------------------------------------------------ bounds
\* longest allowed-root / excluded list handed to is_allowed
MaxRoots == 2
\* longest input list handed to normalise_paths
MaxList == 3

\* ------------------------------------------------------- the path universe
None == <<"<None>">>

HomeDir == <<"home">>

\* the symbolic links of the modelled filesystem: /lnk -> /etc
Symlinks == (<<"lnk">> :> <<"etc">>)

\* str.lower() on one component
LowerName(c) ==
    CASE c = "Etc"  -> "etc"
      [] c = "Home" -> "home"
      [] OTHER      -> c

\* path.as_posix().lower(): the separators are untouched, every component
\* is lower-cased
LowerKey(p) == [i \in 1..Len(p) |-> LowerName(p[i])]

\* the working directory of the process, Gone once it is removed
VARIABLE cwd

\* the working directory after its removal: os.getcwd() raises
\* FileNotFoundError
Gone == <<"<gone>">>

\* a path that is not anchored at the root, written with a leading "."
IsRelative(p) == Len(p) > 0 /\ p[1] = "."

\* Path.expanduser() raises RuntimeError("Could not determine home
\* directory.") for "~user" of a user the system does not know
ExpanduserRaises(p) == Len(p) > 0 /\ p[1] = "~nouser"

\* Path.expanduser(): a leading "~" becomes the home directory
Expanduser(p) ==
    IF Len(p) > 0 /\ p[1] = "~" THEN HomeDir \o Tail(p) ELSE p

\* Path.resolve(): ".." pops a component (and stays at the root), a
\* symbolic link is replaced by its target
RECURSIVE ResolveFrom(_, _)
ResolveFrom(acc, rest) ==
    IF rest = << >> THEN acc
    ELSE LET c == Head(rest)
             nxt == IF c = ".."
                       THEN (IF acc = << >> THEN << >>
                             ELSE SubSeq(acc, 1, Len(acc) - 1))
                       ELSE LET n == Append(acc, c)
                            IN  IF n \in DOMAIN Symlinks THEN Symlinks[n] ELSE n
         IN  ResolveFrom(nxt, Tail(rest))

\* _clean(path): path.expanduser().resolve(); a relative path is resolved
\* from the working directory, and when that raises OSError the path is
\* returned as it was given
Clean(p) ==
    LET q == Expanduser(p)
    IN  IF IsRelative(q)
           THEN (IF cwd = Gone THEN p ELSE ResolveFrom(cwd, Tail(q)))
           ELSE ResolveFrom(<< >>, q)

\* mutant: containment by str.startswith on the two paths as text, for which
\* the last component of parent need only begin the component of path
RelativeToAsText(path, parent) ==
    \/ parent = << >>
    \/ /\ Len(parent) <= Len(path)
       /\ SubSeq(path, 1, Len(parent) - 1) = SubSeq(parent, 1, Len(parent) - 1)
       /\ \/ path[Len(parent)] = parent[Len(parent)]
          \/ parent[Len(parent)] = "etc" /\ path[Len(parent)] = "etcetera"

\* PurePath.relative_to(parent) succeeds: parent's parts are a prefix of
\* path's parts (compared case-sensitively, as on POSIX)
RelativeTo(path, parent) ==
    /\ Len(parent) <= Len(path)
    /\ SubSeq(path, 1, Len(parent)) = parent

\* is_under(path, parent)
IsUnder(path, parent) == RelativeTo(Clean(path), Clean(parent))

NoReason == [text |-> "None", args |-> << >>]
\* f"Excluded path: {entry}"
ExcludedReason(entry) == [text |-> "Excluded path: ", args |-> <<entry>>]
OutsideReason == [text |-> "Outside allowed roots", args |-> << >>]

\* index of the first entry of seq that contains path, 0 when there is none
RECURSIVE FirstUnder(_, _, _)
FirstUnder(path, seq, i) ==
    IF i > Len(seq) THEN 0
    ELSE IF IsUnder(path, seq[i]) THEN i
    ELSE FirstUnder(path, seq, i + 1)

RECURSIVE FirstAllowed(_, _, _)
FirstAllowed(path, seq, i) ==
    IF i > Len(seq) THEN 0
    ELSE IF IsUnder(path, seq[i]) \/ path = seq[i] THEN i
    ELSE FirstAllowed(path, seq, i + 1)

\* mutant: the allowed roots are consulted before the excluded entries
IsAllowedRootsFirst(path, allowed_roots, excluded) ==
    LET p == Clean(path)
        a == FirstAllowed(p, allowed_roots, 1)
        e == FirstUnder(p, excluded, 1)
    IN  IF a > 0 THEN [ok |-> TRUE, reason |-> NoReason]
        ELSE IF e > 0 THEN [ok |-> FALSE, reason |-> ExcludedReason(excluded[e])]
        ELSE [ok |-> FALSE, reason |-> OutsideReason]

\* mutant: nothing matching the allowed roots defaults to allow
IsAllowedDefaultAllow(path, allowed_roots, excluded) ==
    LET p == Clean(path)
        e == FirstUnder(p, excluded, 1)
    IN  IF e > 0 THEN [ok |-> FALSE, reason |-> ExcludedReason(excluded[e])]
        ELSE [ok |-> TRUE, reason |-> NoReason]

\* mutant: the denial names the last excluded entry, not the matching one
IsAllowedWrongEntry(path, allowed_roots, excluded) ==
    LET p == Clean(path)
        e == FirstUnder(p, excluded, 1)
        a == FirstAllowed(p, allowed_roots, 1)
    IN  IF e > 0 THEN [ok |-> FALSE, reason |-> ExcludedReason(excluded[Len(excluded)])]
        ELSE IF a > 0 THEN [ok |-> TRUE, reason |-> NoReason]
        ELSE [ok |-> FALSE, reason |-> OutsideReason]

\* is_allowed(path, allowed_roots, excluded) -> (ok, reason)
IsAllowed(path, allowed_roots, excluded) ==
    LET p == Clean(path)
        e == FirstUnder(p, excluded, 1)
        a == FirstAllowed(p, allowed_roots, 1)
    IN  IF e > 0 THEN [ok |-> FALSE, reason |-> ExcludedReason(excluded[e])]
        ELSE IF a > 0 THEN [ok |-> TRUE, reason |-> NoReason]
        ELSE [ok |-> FALSE, reason |-> OutsideReason]

\* the loop of normalise_paths over values[i..], with the keys seen so far
RECURSIVE NormaliseLoop(_, _, _, _)
NormaliseLoop(values, i, seen, paths) ==
    IF i > Len(values) THEN paths
    ELSE IF values[i] = None THEN NormaliseLoop(values, i + 1, seen, paths)
    ELSE LET path == Clean(values[i])
             key == LowerKey(path)
         IN  IF key \in seen
                THEN NormaliseLoop(values, i + 1, seen, paths)
                ELSE NormaliseLoop(values, i + 1, seen \cup {key}, Append(paths, path))

RECURSIVE NormaliseLoopCaseSensitive(_, _, _, _)
NormaliseLoopCaseSensitive(values, i, seen, paths) ==
    IF i > Len(values) THEN paths
    ELSE IF values[i] = None THEN NormaliseLoopCaseSensitive(values, i + 1, seen, paths)
    ELSE LET path == Clean(values[i])
             key == path
         IN  IF key \in seen
                THEN NormaliseLoopCaseSensitive(values, i + 1, seen, paths)
                ELSE NormaliseLoopCaseSensitive(values, i + 1, seen \cup {key}, Append(paths, path))

\* mutant: the de-duplication key is not lower-cased
NormalisePathsCaseSensitive(values) == NormaliseLoopCaseSensitive(values, 1, {}, << >>)

\* normalise_paths(values)
NormalisePaths(values) == NormaliseLoop(values, 1, {}, << >>)

\* ------------------------------------------------- the indexed directory
\* DataIndexer.base_path: the directory the index is built over
BasePath == <<"home">>
DocsDir == <<"home", "docs">>

\* the files whose state changes: one in the base directory, one below it
NotesFile == <<"home", "a.md">>
ReportFile == <<"home", "docs", "b.md">>
Files == {NotesFile, ReportFile}

\* a file of the base directory whose extension is not indexed
BinaryFile == <<"home", "c.exe">>

\* files of the base directory read through an optional decoder
PdfFile == <<"home", "p.pdf">>
DocxFile == <<"home", "w.docx">>
PaperFiles == {PdfFile, DocxFile}

\* a file of the base directory whose name is not valid UTF-8: os.walk
\* hands it over with a surrogate escape (b"b\xff.md")
OddFile == <<"home", "b\\xff.md">>

\* str(path) can be bound as a text parameter of an SQL statement
Utf8Name(path) == path # OddFile

AllFiles == Files \cup PaperFiles \cup {OddFile}

\* the directories below the base, in the order os.walk visits them
SubDirs(d) == IF d = BasePath THEN <<DocsDir>> ELSE << >>

\* path.name
NameOf(p) == p[Len(p)]

\* the characters of a file name
NameChars(name) ==
    CASE name = "a.md"  -> <<"a", ".", "m", "d">>
      [] name = "b.md"  -> <<"b", ".", "m", "d">>
      [] name = "c.exe" -> <<"c", ".", "e", "x", "e">>
      [] name = "p.pdf" -> <<"p", ".", "p", "d", "f">>
      [] name = "b\\xff.md" -> <<"b", "\\xff", ".", "m", "d">>
      [] name = "w.docx" -> <<"w", ".", "d", "o", "c", "x">>
      [] name = "home"  -> <<"h", "o", "m", "e">>
      [] name = "docs"  -> <<"d", "o", "c", "s">>
      [] name = "abm"   -> <<"a", "b", "m">>
      [] name = "abmd"  -> <<"a", "b", "m", "d">>
      [] name = "xabm"  -> <<"x", "a", "b", "m">>
      [] name = "abd"   -> <<"a", "b", "d">>
      [] name = "awm"   -> <<"a", "w", "m">>
      [] name = "awmd"  -> <<"a", "w", "m", "d">>
      [] name = "xawm"  -> <<"x", "a", "w", "m">>
      [] name = "awd"   -> <<"a", "w", "d">>
      [] name = "xx"    -> <<"x", "x">>
      [] OTHER          -> <<name>>

\* path.suffix.lower()
SuffixOf(p) ==
    CASE NameOf(p) = "a.md"  -> ".md"
      [] NameOf(p) = "b.md"  -> ".md"
      [] NameOf(p) = "c.exe" -> ".exe"
      [] NameOf(p) = "p.pdf" -> ".pdf"
      [] NameOf(p) = "b\\xff.md" -> ".md"
      [] NameOf(p) = "w.docx" -> ".docx"
      [] OTHER               -> ""

ALLOWED_EXTENSIONS ==
    { ".txt", ".md", ".markdown", ".rst", ".py", ".json", ".cfg", ".ini",
      ".yaml", ".yml", ".csv", ".toml", ".js", ".ts", ".jsx", ".tsx", ".html",
      ".css", ".scss", ".less", ".pdf", ".docx", ".log", ".ipynb" }

TEXT_EXTENSIONS ==
    { ".txt", ".md", ".markdown", ".rst", ".json", ".cfg", ".ini", ".yaml",
      ".yml", ".csv", ".toml", ".log", ".html", ".css", ".scss", ".less" }

CODE_EXTENSIONS == { ".py", ".js", ".ts", ".jsx", ".tsx" }

MAX_SNIPPET_CHARS == 6000

\* the default of the max_file_size_mb argument of __init__
DefaultMaxFileSizeMb == 8

\* ---------------------------------------------------------- the filesystem
SecondsPerDay == 86400

\* versions a file's content goes through
MaxVer == 3
\* changes the environment makes to the filesystem
MaxFsOps == 1

Versions == 1..MaxVer

\* st_mtime and st_size of version v: 1 -> 2 changes the size alone (and
\* passes the size ceiling), 1 -> 3 the mtime alone, 3 -> 4 neither
MtimeOf(v) == SecondsPerDay * ((v + 1) \div 2)
SizeOf(v) == IF v % 3 = 2 THEN 9000000 ELSE 2

\* the text of version v of file f, character by character: "ww <v>" in
\* the notes file, "md <v>" in the report
BodyOf(f, v) ==
    IF f = NotesFile THEN <<"w", "w", " ", ToString(v)>>
                     ELSE <<"m", "d", " ", ToString(v)>>

Absent == [kind |-> "absent", ver |-> 0]
\* listed by its directory, but stat() raises OSError (a dangling link)
Broken == [kind |-> "broken", ver |-> 0]
Present(v) == [kind |-> "file", ver |-> v]
\* stat() succeeds, reading raises (no read permission)
Locked(v) == [kind |-> "locked", ver |-> v]

Min(a, b) == IF a < b THEN a ELSE b

\* ------------------------------------------------------------------ state
VARIABLES
    pol_op,         \* which function the caller applies
    pol_path,       \* is_allowed: the path argument
    pol_allowed,    \* is_allowed: the allowed_roots argument
    pol_excluded,   \* is_allowed: the excluded argument
    pol_ret,        \* is_allowed: << >> before the call, <<result>> after
    norm_in,        \* normalise_paths: the values argument
    norm_ret,       \* normalise_paths: << >> before the call, <<result>> after
    name_in,        \* name score: << >> or <<[query, names, mtime]>>
    name_ret,       \* name score: << >> before the call, <<name -> score>> after
    fs,             \* the disk: the state of every file of Files
    base_exists,    \* the disk: whether the base directory exists
    fs_ops,         \* changes the environment has made to the disk
    fts_available,  \* DataIndexer._fts_available, settled by _prepare_schema
    max_file_size_mb, \* DataIndexer.max_file_size_mb
    allowed_roots,  \* DataIndexer.allowed_roots
    excluded_paths, \* DataIndexer.excluded_paths
    files,          \* table files: path -> [id, mtime, size]
    file_content,   \* table file_content: rowid -> row
    metadata,       \* table metadata: key -> value
    cancel_event,   \* DataIndexer._cancel_event: the Event object installed
    events_set,     \* the Event objects whose flag is set
    cancels,        \* cancellation requests made so far
    last_skipped,   \* DataIndexer._last_skipped
    last_errors,    \* DataIndexer._last_errors
    rebuilds,       \* rebuild_index calls made so far
    rb,             \* the locals of the running rebuild_index call
    progress,       \* the on_progress calls of the running rebuild
    sr,             \* the locals of the running search call
    searches,       \* search calls made so far
    base_path,      \* DataIndexer.base_path
    conn,           \* DataIndexer._conn: "open", or "none" after close()
    decoders,       \* the optional decoders that can be imported
    fm_index,       \* FileManager.index["files"]: the paths it lists
    summary_queue,  \* FileManager._summary_queue
    fs_events,      \* watchdog notifications not yet handled
    manual_index_thread, \* NousApp._manual_index_thread: threads started, returned
    after_queue,    \* Tk root.after(0, ...) callbacks not yet run
    index_complete, \* the stats _on_index_complete was called with
    h               \* history of the run, read by the properties only

polvars == <<pol_op, pol_path, pol_allowed, pol_excluded, pol_ret, norm_in, norm_ret,
             name_in, name_ret>>


\* -------------------------------------------------------- the index store
idxvars == <<fs, base_exists, fs_ops, fts_available, max_file_size_mb, allowed_roots, excluded_paths,
             files, file_content, metadata, cancel_event, events_set, cancels,
             last_skipped, last_errors, rebuilds, rb, progress, sr, searches, h>>

\* the application around the indexer
extvars == <<base_path, cwd, conn, decoders, fm_index, summary_queue, fs_events,
             manual_index_thread, after_queue, index_complete>>

\* the index store without the metadata table and the history
idxbase == <<fs, base_exists, fs_ops, fts_available, max_file_size_mb, allowed_roots,
             excluded_paths, files, file_content, cancel_event, events_set, cancels,
             last_skipped, last_errors, rebuilds, rb, progress, sr, searches>>

\* the index store without the disk and the history
storevars == <<base_exists, fts_available, max_file_size_mb, allowed_roots,
               excluded_paths, files, file_content, metadata, cancel_event,
               events_set, cancels, last_skipped, last_errors, rebuilds, rb,
               progress, sr, searches>>

vars == <<polvars, idxvars, extvars>>

\* rebuild_index calls
MaxRebuilds == 2
\* cancellation requests
MaxCancels == 1

\* Event objects: the one made by __init__ is 0, the one rebuild n makes
\* (line 227; no caller of the repository passes cancel_event) is n
InitEvent == 0
FreshEvent(n) == n

SetMax(S) == CHOOSE x \in S : \A y \in S : y <= x

\* the rowid SQLite gives a row inserted without one: the largest in the
\* table plus one
NextRowId(table) ==
    IF DOMAIN table = {} THEN 1 ELSE SetMax({table[q].id : q \in DOMAIN table}) + 1

Restrict(f, S) == [x \in S |-> f[x]]

\* INSERT OR REPLACE INTO files(path, mtime, size, indexed_at): the new row
\* gets a fresh id, a row with the same path is deleted
FilesReplace(table, path, stat) ==
    LET rest == Restrict(table, DOMAIN table \ {path})
    IN  (path :> [id |-> NextRowId(table), mtime |-> stat.mtime, size |-> stat.size]) @@ rest

\* INSERT OR REPLACE INTO file_content at the rowid of the file's row
ContentReplace(content, fts, rowid, path, text) ==
    LET row == IF fts THEN [path |-> path, content |-> text] ELSE [content |-> text]
    IN  (rowid :> row) @@ Restrict(content, DOMAIN content \ {rowid})

\* _upsert_file(path, stat, content)
UpsertFile(table, content, fts, path, stat, text) ==
    LET t == FilesReplace(table, path, stat)
    IN  [files |-> t, file_content |-> ContentReplace(content, fts, t[path].id, path, text)]

\* _delete_file(path): the files row goes; the full-text table drops the
\* rows of that path, the fallback table the rows linked to no file
DeleteFile(table, content, fts, path) ==
    LET t == Restrict(table, DOMAIN table \ {path})
        ids == {t[q].id : q \in DOMAIN t}
        keep == IF fts THEN {r \in DOMAIN content : content[r].path # path}
                       ELSE {r \in DOMAIN content : r \in ids}
    IN  [files |-> t, file_content |-> Restrict(content, keep)]

RECURSIVE DeleteAll(_, _, _, _)
DeleteAll(table, content, fts, paths) ==
    IF paths = {} THEN [files |-> table, file_content |-> content]
    ELSE LET q == CHOOSE x \in paths : TRUE
             d == DeleteFile(table, content, fts, q)
         IN  DeleteAll(d.files, d.file_content, fts, paths \ {q})

\* mutant: the count is the one of the rows read before the pass
CountFilesOfSnapshot(table) == Cardinality(DOMAIN rb.existing)

\* _count_files()
CountFiles(table) == Cardinality(DOMAIN table)

\* _check_allowed(path)
CheckAllowed(path, allowed, excluded) == IsAllowed(path, allowed, excluded)

\* the content row joined to the file row of path (files.id = rowid)
JoinedContent(table, content, path) ==
    IF path \in DOMAIN table /\ table[path].id \in DOMAIN content
       THEN <<content[table[path].id].content>>
       ELSE << >>

\* whether any content row belongs to path
HasContentRecord(table, content, fts, path) ==
    \/ JoinedContent(table, content, path) # << >>
    \/ fts /\ \E r \in DOMAIN content : content[r].path = path

\* --------------------------------------------------------------- extraction
NoNote == << >>

\* text[:MAX_SNIPPET_CHARS]
Truncate(text) == SubSeq(text, 1, Min(Len(text), MAX_SNIPPET_CHARS))

\* max(1.0, float(max_file_size_mb)) of lines 99 and 128
EffectiveSizeMb(configured) == IF configured < 1 THEN 1 ELSE configured

\* self.max_file_size_bytes = int(self.max_file_size_mb * 1024 * 1024)
MaxFileSizeBytes == max_file_size_mb * 1024 * 1024

\* f"Skipped content (>{self.max_file_size_mb:.1f} MB)"
SizeNote == [text |-> "Skipped content (>{:.1f} MB)", args |-> <<max_file_size_mb>>]
\* f"Read error: {exc}"
ReadErrorNote == [text |-> "Read error: ", args |-> << >>]
UnsupportedNote == [text |-> "Unsupported format", args |-> << >>]
PdfUnavailableNote == [text |-> "PDF text extraction unavailable", args |-> << >>]
DocxUnavailableNote == [text |-> "DOCX text extraction unavailable", args |-> << >>]

\* mutant: a decoder that is not installed counts as a failed read
ReadThroughDecoderRaising(path, state, decoder, unavailable) ==
    IF decoder \in decoders /\ state.kind = "file"
       THEN [snippet |-> <<Truncate(BodyOf(path, state.ver))>>, note |-> NoNote,
             opened |-> TRUE]
       ELSE [snippet |-> << >>, note |-> <<ReadErrorNote>>, opened |-> decoder \in decoders]

\* lines 564-583: a PDF is read through fitz, a DOCX through docx; the
\* import of a decoder that is not installed raises, and the file name
\* stands for the text
ReadThroughDecoder(path, state, decoder, unavailable) ==
    IF decoder \notin decoders
       THEN [snippet |-> <<NameChars(NameOf(path))>>, note |-> <<unavailable>>,
             opened |-> FALSE]
    ELSE IF state.kind = "file"
       THEN [snippet |-> <<Truncate(BodyOf(path, state.ver))>>, note |-> NoNote,
             opened |-> TRUE]
    ELSE [snippet |-> << >>, note |-> <<ReadErrorNote>>, opened |-> TRUE]


\* mutant: an oversized file is read like any other
ReadTextSnippetNoCeiling(path, state) ==
    IF SuffixOf(path) \in TEXT_EXTENSIONS \cup CODE_EXTENSIONS
       THEN IF state.kind = "file"
               THEN [snippet |-> <<Truncate(BodyOf(path, state.ver))>>, note |-> NoNote,
                     opened |-> TRUE]
               ELSE [snippet |-> << >>, note |-> <<ReadErrorNote>>, opened |-> TRUE]
    ELSE IF SuffixOf(path) = ".pdf"
       THEN ReadThroughDecoder(path, state, "fitz", PdfUnavailableNote)
    ELSE IF SuffixOf(path) = ".docx"
       THEN ReadThroughDecoder(path, state, "docx", DocxUnavailableNote)
    ELSE [snippet |-> << >>, note |-> <<UnsupportedNote>>, opened |-> FALSE]

\* _read_text_snippet(path, size) -> (snippet, note); << >> stands for None;
\* opened tells whether the file was opened for reading (path.read_text)
ReadTextSnippet(path, state) ==
    IF SizeOf(state.ver) > MaxFileSizeBytes
       THEN [snippet |-> <<NameChars(NameOf(path))>>, note |-> <<SizeNote>>,
             opened |-> FALSE]
    ELSE IF SuffixOf(path) \in TEXT_EXTENSIONS \cup CODE_EXTENSIONS
       THEN IF state.kind = "file"
               THEN [snippet |-> <<Truncate(BodyOf(path, state.ver))>>, note |-> NoNote,
                     opened |-> TRUE]
               ELSE [snippet |-> << >>, note |-> <<ReadErrorNote>>, opened |-> TRUE]
    ELSE IF SuffixOf(path) = ".pdf"
       THEN ReadThroughDecoder(path, state, "fitz", PdfUnavailableNote)
    ELSE IF SuffixOf(path) = ".docx"
       THEN ReadThroughDecoder(path, state, "docx", DocxUnavailableNote)
    ELSE [snippet |-> << >>, note |-> <<UnsupportedNote>>, opened |-> FALSE]

\* f"{path.name} (no readable text found)"
NoTextSnippet(path) == NameChars(NameOf(path)) \o <<" (no readable text found)">>

\* ------------------------------------------------------------------ search
\* str.strip(): leading and trailing whitespace goes
IsSpace(c) == c \in {" ", "\t", "\n"}

RECURSIVE StripLeft(_)
StripLeft(q) == IF q # << >> /\ IsSpace(Head(q)) THEN StripLeft(Tail(q)) ELSE q

RECURSIVE StripRight(_)
StripRight(q) ==
    IF q # << >> /\ IsSpace(q[Len(q)]) THEN StripRight(SubSeq(q, 1, Len(q) - 1)) ELSE q

\* mutant: the query is taken as typed
StripNothing(q) == q

Strip(q) == StripRight(StripLeft(q))

\* str.lower(), character by character
LowerChar(c) ==
    CASE c = "A" -> "a"
      [] c = "M" -> "m"
      [] c = "W" -> "w"
      [] OTHER   -> c

Lower(q) == [i \in 1..Len(q) |-> LowerChar(q[i])]

\* the character class of the pattern r"[\\w]+": a backslash or the letter w
InTokenClass(c) == c \in {"\\", "w"}

\* re.findall(r"[\\w]+", text): the maximal runs of the class, left to right
RECURSIVE FindTokens(_, _, _)
FindTokens(text, run, found) ==
    IF text = << >> THEN (IF run = << >> THEN found ELSE Append(found, run))
    ELSE IF InTokenClass(Head(text))
       THEN FindTokens(Tail(text), Append(run, Head(text)), found)
    ELSE FindTokens(Tail(text), << >>,
                    IF run = << >> THEN found ELSE Append(found, run))

Tokens(lower_query) == FindTokens(lower_query, << >>, << >>)

\* str.startswith
StartsWith(text, prefix) ==
    Len(prefix) <= Len(text) /\ SubSeq(text, 1, Len(prefix)) = prefix

\* the "in" of two strings
Contains(text, part) ==
    \E i \in 1..(Len(text) - Len(part) + 1) :
        SubSeq(text, i, i + Len(part) - 1) = part

\* SequenceMatcher.find_longest_match on a[alo..ahi], b[blo..bhi]: the
\* longest common block, the earliest in a, then the earliest in b
LongestMatch(a, alo, ahi, b, blo, bhi) ==
    LET blocks == { t \in (alo..ahi) \X (blo..bhi) \X (1..(ahi - alo + 1)) :
                      /\ t[1] + t[3] - 1 <= ahi
                      /\ t[2] + t[3] - 1 <= bhi
                      /\ SubSeq(a, t[1], t[1] + t[3] - 1) = SubSeq(b, t[2], t[2] + t[3] - 1) }
    IN  IF blocks = {} THEN <<alo, blo, 0>>
        ELSE CHOOSE t \in blocks :
                \A u \in blocks :
                    \/ u[3] < t[3]
                    \/ u[3] = t[3] /\ t[1] < u[1]
                    \/ u[3] = t[3] /\ t[1] = u[1] /\ t[2] <= u[2]

\* the matched characters SequenceMatcher.get_matching_blocks adds up
RECURSIVE MatchCount(_, _, _, _, _, _)
MatchCount(a, alo, ahi, b, blo, bhi) ==
    IF alo > ahi \/ blo > bhi THEN 0
    ELSE LET m == LongestMatch(a, alo, ahi, b, blo, bhi)
         IN  IF m[3] = 0 THEN 0
             ELSE m[3]
                  + MatchCount(a, alo, m[1] - 1, b, blo, m[2] - 1)
                  + MatchCount(a, m[1] + m[3], ahi, b, m[2] + m[3], bhi)

\* how many of the tokens occur in the file name
RECURSIVE TokenHits(_, _)
TokenHits(tokens, filename) ==
    IF tokens = << >> THEN 0
    ELSE (IF Contains(filename, Head(tokens)) THEN 1 ELSE 0)
         + TokenHits(Tail(tokens), filename)

\* time.time(): ten days after the epoch of the model
Now == SecondsPerDay * 10

Max(a, b) == IF a > b THEN a ELSE b

\* a score is the fraction num / den, den > 0
Frac(n, d) == [num |-> n, den |-> d]
FracAdd(x, y) == Frac(x.num * y.den + y.num * x.den, x.den * y.den)
FracLess(x, y) == x.num * y.den < y.num * x.den
FracEq(x, y) == x.num * y.den = y.num * x.den
Zero == Frac(0, 1)

\* mutant: an exact name and a prefix score like any name that contains
\* the query
NameScoreNoTiers(lower_query, tokens, path, mtime) ==
    LET filename == Lower(NameChars(NameOf(path)))
        t == Len(lower_query) + Len(filename)
        tier == IF Contains(filename, lower_query) THEN 90 ELSE 0
        m == MatchCount(lower_query, 1, Len(lower_query), filename, 1, Len(filename))
        similar == IF tier = 0 /\ Len(lower_query) >= 3 /\ 10 * m >= 3 * t
                      THEN Frac(140 * m, t) ELSE Zero
        bonus == 15 * TokenHits(tokens, filename)
        score == FracAdd(Frac(tier + bonus, 1), similar)
        age_days == Max(0, (Now - mtime) \div SecondsPerDay)
        recency_bonus == Max(5, 35 - age_days)
        depth_penalty == Frac(3 * (Len(path) + 1), 2)
    IN  IF FracLess(Zero, score)
           THEN [counts |-> TRUE,
                 score |-> FracAdd(FracAdd(score, Frac(recency_bonus, 1)),
                                   Frac(0 - depth_penalty.num, depth_penalty.den))]
           ELSE [counts |-> FALSE, score |-> Zero]

\* lines 349-374: the name score of one file row, and whether it counts
\* (score > 0 before the recency bonus and the depth penalty)
NameScore(lower_query, tokens, path, mtime) ==
    LET filename == Lower(NameChars(NameOf(path)))
        t == Len(lower_query) + Len(filename)
        tier == IF filename = lower_query THEN 150
                ELSE IF StartsWith(filename, lower_query) THEN 110
                ELSE IF Contains(filename, lower_query) THEN 90
                ELSE 0
        m == MatchCount(lower_query, 1, Len(lower_query), filename, 1, Len(filename))
        \* ratio = 2.0 * m / t, counted when ratio >= 0.6; ratio * 70 = 140 m / t
        similar == IF tier = 0 /\ Len(lower_query) >= 3 /\ 10 * m >= 3 * t
                      THEN Frac(140 * m, t) ELSE Zero
        bonus == 15 * TokenHits(tokens, filename)
        score == FracAdd(Frac(tier + bonus, 1), similar)
        age_days == Max(0, (Now - mtime) \div SecondsPerDay)
        recency_bonus == Max(5, 35 - age_days)
        \* len(path.parts) * 1.5, the root "/" being a part
        depth_penalty == Frac(3 * (Len(path) + 1), 2)
    IN  IF FracLess(Zero, score)
           THEN [counts |-> TRUE,
                 score |-> FracAdd(FracAdd(score, Frac(recency_bonus, 1)),
                                   Frac(0 - depth_penalty.num, depth_penalty.den))]
           ELSE [counts |-> FALSE, score |-> Zero]

\* the words the full-text tokenizer makes of a text: the runs between
\* separators
IsSeparator(c) == c \in {" ", ".", "\t", "\n", "("}

RECURSIVE Words(_, _, _)
Words(text, run, found) ==
    IF text = << >> THEN (IF run = << >> THEN found ELSE found \cup {run})
    ELSE IF IsSeparator(Head(text))
       THEN Words(Tail(text), << >>, IF run = << >> THEN found ELSE found \cup {run})
    ELSE Words(Tail(text), Append(run, LowerChar(Head(text))), found)

\* content MATCH 'tok1* OR tok2* ...': some token is a prefix of some word
FtsMatches(text, tokens) ==
    \E i \in 1..Len(tokens) : \E w \in Words(text, << >>, {}) : StartsWith(w, tokens[i])

\* bm25(file_content): negative for a hit, lower for more matching words
Bm25(text, tokens) ==
    0 - Cardinality({ w \in Words(text, << >>, {}) :
                        \E i \in 1..Len(tokens) : StartsWith(w, tokens[i]) })

\* lines 376-413: path -> (score, preview) of the content hits, read from
\* the two tables joined on the row id
ContentScores(table, content, fts, lower_query, tokens) ==
    LET joined == { q \in DOMAIN table : table[q].id \in DOMAIN content }
        text(q) == content[table[q].id].content
        hits == IF tokens = << >> THEN {}
                ELSE IF fts THEN { q \in joined : FtsMatches(text(q), tokens) }
                ELSE { q \in joined : Contains(Lower(text(q)), lower_query) }
    IN  [q \in hits |->
            IF fts THEN [score |-> Max(0, 120 - Bm25(text(q), tokens)),
                         preview |-> text(q)]
                   ELSE [score |-> 60,
                         preview |-> SubSeq(text(q), 1, Min(Len(text(q)), 400))]]

\* the code points the sort compares
CodePoint(c) ==
    CASE c = "." -> 46 [] c = "/" -> 47 [] c = "a" -> 97 [] c = "b" -> 98
      [] c = "c" -> 99 [] c = "d" -> 100 [] c = "e" -> 101 [] c = "h" -> 104
      [] c = "m" -> 109 [] c = "o" -> 111 [] c = "s" -> 115 [] c = "x" -> 120
      [] OTHER -> 0

\* str < str
RECURSIVE StrLess(_, _)
StrLess(x, y) ==
    IF y = << >> THEN FALSE
    ELSE IF x = << >> THEN TRUE
    ELSE IF Head(x) = Head(y) THEN StrLess(Tail(x), Tail(y))
    ELSE CodePoint(Head(x)) < CodePoint(Head(y))

\* str(path)
RECURSIVE PathChars(_)
PathChars(path) ==
    IF path = << >> THEN << >>
    ELSE <<"/">> \o NameChars(Head(path)) \o PathChars(Tail(path))

\* the sort key (-score, name, path) of line 448, compared
EntryBefore(x, y) ==
    \/ FracLess(y.score, x.score)
    \/ /\ FracEq(x.score, y.score)
       /\ \/ StrLess(NameChars(x.name), NameChars(y.name))
          \/ /\ x.name = y.name
             /\ StrLess(PathChars(x.path), PathChars(y.path))

\* sorted(merged.values(), key=...)
RECURSIVE Sorted(_)
Sorted(entries) ==
    IF entries = {} THEN << >>
    ELSE LET first == CHOOSE x \in entries : \A y \in entries \ {x} : EntryBefore(x, y)
         IN  <<first>> \o Sorted(entries \ {first})

\* mutant: the sorted list is returned whole
RankedNoTruncate(file_rows, table, content, fts, query, limit) ==
    LET lower_query == Lower(query)
        tokens == Tokens(lower_query)
        content_scores == ContentScores(table, content, fts, lower_query, tokens)
        name(q) == NameScore(lower_query, tokens, q, file_rows[q].mtime)
        total(q) == FracAdd(name(q).score,
                            IF q \in DOMAIN content_scores
                               THEN Frac(content_scores[q].score, 1) ELSE Zero)
        merged == { [path |-> q, name |-> NameOf(q), score |-> total(q),
                     snippet |-> << >>, modified |-> file_rows[q].mtime,
                     size_bytes |-> file_rows[q].size] : q \in DOMAIN file_rows }
    IN  Sorted(merged)

\* mutant: a content hit for a path that is not among the file rows read
\* gets an entry of its own, from the file row the content query joined
RankedWithEveryHit(file_rows, table, content, fts, query, limit) ==
    LET lower_query == Lower(query)
        tokens == Tokens(lower_query)
        content_scores == ContentScores(table, content, fts, lower_query, tokens)
        row(q) == IF q \in DOMAIN file_rows THEN file_rows[q]
                  ELSE [mtime |-> table[q].mtime, size |-> table[q].size]
        name(q) == NameScore(lower_query, tokens, q, row(q).mtime)
        total(q) == FracAdd(name(q).score,
                            IF q \in DOMAIN content_scores
                               THEN Frac(content_scores[q].score, 1) ELSE Zero)
        merged == { [path |-> q, name |-> NameOf(q), score |-> total(q),
                     snippet |-> << >>, modified |-> row(q).mtime,
                     size_bytes |-> row(q).size] :
                        q \in DOMAIN file_rows \cup DOMAIN content_scores }
        ranked == Sorted(merged)
    IN  SubSeq(ranked, 1, Min(Len(ranked), limit))

\* lines 347-450: the ranked entries of a query over the file rows read
\* before and the content rows read now
Ranked(file_rows, table, content, fts, query, limit) ==
    LET lower_query == Lower(query)
        tokens == Tokens(lower_query)
        content_scores == ContentScores(table, content, fts, lower_query, tokens)
        name(q) == NameScore(lower_query, tokens, q, file_rows[q].mtime)
        total(q) == FracAdd(name(q).score,
                            IF q \in DOMAIN content_scores
                               THEN Frac(content_scores[q].score, 1) ELSE Zero)
        snippet(q) ==
            IF q \in DOMAIN content_scores /\ Strip(content_scores[q].preview) # << >>
               THEN Strip(content_scores[q].preview)
            ELSE IF name(q).counts THEN <<"Filename match for ">> \o query
            ELSE IF q \in DOMAIN content_scores THEN <<"Content match">>
            ELSE << >>
        merged == { [path |-> q, name |-> NameOf(q), score |-> total(q),
                     snippet |-> snippet(q), modified |-> file_rows[q].mtime,
                     size_bytes |-> file_rows[q].size] : q \in DOMAIN file_rows }
        ranked == Sorted(merged)
    IN  SubSeq(ranked, 1, Min(Len(ranked), limit))

\* ------------------------------------------------------------ the rebuild
IdleLocals ==
    [pc |-> "idle", event |-> InitEvent, walk |-> << >>, visited |-> {},
     candidates |-> << >>, existing |-> << >>, idx |-> 0, updated |-> 0,
     processed |-> 0, seen_paths |-> {}, cancelled |-> FALSE, result |-> << >>]

IdleSearch ==
    [pc |-> "idle", raw |-> << >>, query |-> << >>, asked |-> 0, limit |-> 0,
     file_rows |-> << >>, result |-> << >>, reads |-> 0, hits |-> {}]

NoHistory ==
    [upserted |-> << >>, gone |-> {}, cancel_in_crawl |-> FALSE,
     cancel_in_pass |-> FALSE, deleted |-> {}, extracted |-> {},
     quiet |-> "none", quiet_files |-> << >>, quiet_content |-> << >>,
     at_entry |-> << >>, disturbed |-> FALSE, listed |-> {}, rejected |-> {},
     set_base |-> << >>, handled |-> << >>, meta_writes |-> << >>,
     cancel_in_call |-> FALSE, closed_use |-> {}]

\* the max_file_size_mb the indexer is constructed with: the default, and
\* one above the size of the largest file
SizeChoices == {DefaultMaxFileSizeMb, 2 * DefaultMaxFileSizeMb}

\* the policies the indexer is constructed with
PolicyChoices ==
    { [allowed |-> <<BasePath>>, excluded |-> << <<"etc">> >>],
      [allowed |-> <<BasePath>>, excluded |-> << <<"etc">>, DocsDir >>],
      [allowed |-> <<DocsDir>>, excluded |-> << <<"etc">> >>] }

\* the application has started nothing: no decoder is installed, the file
\* manager lists nothing, no thread was started
InitExt ==
    /\ base_path = BasePath
    /\ conn = "open"
    /\ decoders = {}
    /\ fm_index = << >>
    /\ summary_queue = << >>
    /\ fs_events = << >>
    /\ manual_index_thread = [requests |-> 0, started |-> 0, returned |-> 0]
    /\ after_queue = << >>
    /\ index_complete = << >>

InitIndex ==
    /\ InitExt
    /\ fs = [f \in AllFiles |-> IF f \in Files THEN Present(1) ELSE Absent]
    /\ base_exists = TRUE
    /\ fs_ops = 0
    /\ fts_available \in BOOLEAN
    /\ \E m \in SizeChoices : max_file_size_mb = EffectiveSizeMb(m)
    /\ \E pc \in PolicyChoices :
          /\ allowed_roots = pc.allowed
          /\ excluded_paths = pc.excluded
    /\ files = << >>
    /\ file_content = << >>
    /\ metadata = << >>
    /\ cancel_event = InitEvent
    /\ events_set = {}
    /\ cancels = 0
    /\ last_skipped = << >>
    /\ last_errors = << >>
    /\ rebuilds = 0
    /\ rb = IdleLocals
    /\ progress = << >>
    /\ sr = IdleSearch
    /\ searches = 0
    /\ h = NoHistory

\* get_base_path()
GetBasePath ==
    IF "base_path" \in DOMAIN metadata THEN Clean(metadata["base_path"]) ELSE base_path

\* mutant: every path exists
ExistsAlways(path) == TRUE

\* Path.exists(): the root and /etc are always there, the base directory
\* and its sub-directory until the base is removed, a file while the disk
\* holds it (a dangling link does not exist)
Exists(path) ==
    \/ path \in { << >>, <<"etc">> }
    \/ path \in {BasePath, DocsDir} /\ base_exists
    \/ path \in AllFiles /\ fs[path].kind \in {"file", "locked"}

\* no rebuild_index call is running: none was made, or the last one has
\* returned or raised
Returned == rb.pc \in {"idle", "done", "raised"}

\* rebuild_index, lines 223-225: a missing base directory ends the call
RebuildEnter ==
    /\ Returned
    /\ rebuilds < MaxRebuilds
    /\ rebuilds' = rebuilds + 1
    /\ LET base == GetBasePath
           entry == [gone |-> {f \in DOMAIN files : fs[f].kind = "absent"},
                     at_entry |-> <<[files |-> files, file_content |-> file_content,
                                     metadata |-> metadata, last_skipped |-> last_skipped,
                                     last_errors |-> last_errors,
                                     cancel_event |-> cancel_event,
                                     events_set |-> events_set,
                                     allowed_roots |-> allowed_roots,
                                     excluded_paths |-> excluded_paths,
                                     base |-> base]>>,
                     upserted |-> << >>, deleted |-> {}, extracted |-> {},
                     cancel_in_crawl |-> FALSE, cancel_in_pass |-> FALSE,
                     disturbed |-> FALSE, listed |-> {}, rejected |-> {},
                     meta_writes |-> << >>, cancel_in_call |-> FALSE]
       IN  IF ~Exists(base)
              THEN /\ rb' = [IdleLocals EXCEPT
                               !.pc = "done",
                               !.result = <<[documents |-> 0, total_scanned |-> 0,
                                             skipped |-> 0, errors |-> 0,
                                             cancelled |-> FALSE]>>]
                   /\ h' = entry @@ [h EXCEPT !.quiet = "none"]
              ELSE /\ rb' = [IdleLocals EXCEPT
                               !.pc = "install",
                               !.event = FreshEvent(rebuilds'),
                               !.walk = <<base>>]
                   /\ h' = entry @@
                           [h EXCEPT !.quiet = IF h.quiet = "settled" THEN "second"
                                                                     ELSE "first"]
    /\ progress' = << >>
    /\ UNCHANGED <<polvars, extvars, sr, searches, fs, base_exists, fs_ops, fts_available, max_file_size_mb, allowed_roots,
                   excluded_paths, files, file_content, metadata, cancel_event,
                   events_set, cancels, last_skipped, last_errors>>

\* lines 227-232: install the event, clear it, reset the diagnostics
RebuildInstall ==
    /\ rb.pc = "install"
    /\ cancel_event' = rb.event
    /\ events_set' = events_set \ {rb.event}
    /\ last_skipped' = << >>
    /\ last_errors' = << >>
    /\ rb' = [rb EXCEPT !.pc = "crawl"]
    /\ UNCHANGED <<polvars, extvars, sr, searches, fs, base_exists, fs_ops, fts_available, max_file_size_mb, allowed_roots,
                   excluded_paths, files, file_content, metadata, cancels, rebuilds,
                   progress, h>>

\* _record_skip(path, reason)
RecordSkip(log, path, reason) == Append(log, [path |-> path, reason |-> reason])

\* _record_error(path, reason)
RecordError(log, path, reason) == Append(log, [path |-> path, reason |-> reason])

\* os.walk: the entries of directory d that are not directories
FileNames(d) ==
    IF ~base_exists THEN << >>
    ELSE IF d = BasePath
       THEN (IF fs[NotesFile].kind # "absent" THEN <<NotesFile>> ELSE << >>)
            \o <<BinaryFile>>
            \o (IF fs[PdfFile].kind # "absent" THEN <<PdfFile>> ELSE << >>)
            \o (IF fs[DocxFile].kind # "absent" THEN <<DocxFile>> ELSE << >>)
            \o (IF fs[OddFile].kind # "absent" THEN <<OddFile>> ELSE << >>)
    ELSE IF d = DocsDir
       THEN (IF fs[ReportFile].kind # "absent" THEN <<ReportFile>> ELSE << >>)
    ELSE << >>

\* os.walk: the sub-directories of d
DirNames(d) == IF ~base_exists THEN << >> ELSE SubDirs(d)

\* mutant: a denied sub-directory is recorded and walked all the same
RECURSIVE PruneDirsKeepAll(_, _, _, _)
PruneDirsKeepAll(dirs, i, kept, skipped) ==
    IF i > Len(dirs) THEN [pruned |-> kept, skipped |-> skipped]
    ELSE LET c == CheckAllowed(dirs[i], allowed_roots, excluded_paths)
         IN  IF c.ok THEN PruneDirsKeepAll(dirs, i + 1, Append(kept, dirs[i]), skipped)
             ELSE PruneDirsKeepAll(dirs, i + 1, Append(kept, dirs[i]),
                                   RecordSkip(skipped, dirs[i], c.reason))

\* _collect_candidates, lines 490-498: the sub-directories the policy admits,
\* and the skip records of the others
RECURSIVE PruneDirs(_, _, _, _)
PruneDirs(dirs, i, kept, skipped) ==
    IF i > Len(dirs) THEN [pruned |-> kept, skipped |-> skipped]
    ELSE LET c == CheckAllowed(dirs[i], allowed_roots, excluded_paths)
         IN  IF c.ok THEN PruneDirs(dirs, i + 1, Append(kept, dirs[i]), skipped)
             ELSE PruneDirs(dirs, i + 1, kept, RecordSkip(skipped, dirs[i], c.reason))

\* _collect_candidates, lines 500-508: the files with an indexed extension
\* that the policy admits, and the skip records of those it denies
RECURSIVE FilterFiles(_, _, _, _)
FilterFiles(names, i, kept, skipped) ==
    IF i > Len(names) THEN [candidates |-> kept, skipped |-> skipped]
    ELSE IF SuffixOf(names[i]) \notin ALLOWED_EXTENSIONS
       THEN FilterFiles(names, i + 1, kept, skipped)
    ELSE LET c == CheckAllowed(names[i], allowed_roots, excluded_paths)
         IN  IF c.ok THEN FilterFiles(names, i + 1, Append(kept, names[i]), skipped)
             ELSE FilterFiles(names, i + 1, kept, RecordSkip(skipped, names[i], c.reason))

\* the entries of directory d the crawl turns down: the sub-directories and
\* files the policy denies, the files whose extension is not indexed
RejectedIn(d) ==
    LET Among(seq) == {seq[i] : i \in 1..Len(seq)}
    IN  {x \in Among(DirNames(d)) : ~CheckAllowed(x, allowed_roots, excluded_paths).ok}
        \cup {x \in Among(FileNames(d)) :
                  \/ SuffixOf(x) \notin ALLOWED_EXTENSIONS
                  \/ ~CheckAllowed(x, allowed_roots, excluded_paths).ok}

\* _collect_candidates, one turn of the os.walk loop (lines 469-508); an
\* exhausted walk or a set event ends the crawl. os.walk has read the
\* entries of a directory when it yields it.
CrawlStep ==
    /\ rb.pc = "crawl"
    /\ IF rb.walk = << >> \/ ~base_exists
          THEN /\ rb' = [rb EXCEPT !.pc = "snapshot", !.walk = << >>]
               /\ UNCHANGED <<last_skipped, h>>
          ELSE IF rb.event \in events_set
          THEN /\ rb' = [rb EXCEPT !.pc = "snapshot", !.walk = << >>]
               /\ h' = [h EXCEPT !.listed = @ \cup {Head(rb.walk)}]
               /\ UNCHANGED last_skipped
          ELSE LET current_dir == Head(rb.walk)
                   rest == Tail(rb.walk)
                   resolved == Clean(current_dir)
                   here == CheckAllowed(current_dir, allowed_roots, excluded_paths)
                   dirs == PruneDirs(DirNames(current_dir), 1, << >>, last_skipped)
                   found == FilterFiles(FileNames(current_dir), 1, rb.candidates,
                                        dirs.skipped)
               IN  IF resolved \in rb.visited
                      THEN /\ rb' = [rb EXCEPT !.walk = rest]
                           /\ h' = [h EXCEPT !.listed = @ \cup {current_dir}]
                           /\ UNCHANGED last_skipped
                   ELSE IF ~here.ok
                      THEN /\ rb' = [rb EXCEPT !.walk = rest,
                                               !.visited = @ \cup {resolved}]
                           /\ last_skipped' = RecordSkip(last_skipped, current_dir,
                                                         here.reason)
                           /\ h' = [h EXCEPT !.listed = @ \cup {current_dir},
                                             !.rejected = @ \cup {current_dir}]
                   ELSE /\ rb' = [rb EXCEPT !.walk = dirs.pruned \o rest,
                                            !.visited = @ \cup {resolved},
                                            !.candidates = found.candidates]
                        /\ last_skipped' = found.skipped
                        /\ h' = [h EXCEPT !.listed = @ \cup {current_dir},
                                          !.rejected = @ \cup RejectedIn(current_dir)]
    /\ UNCHANGED <<polvars, extvars, sr, searches, fs, base_exists, fs_ops, fts_available, max_file_size_mb, allowed_roots,
                   excluded_paths, files, file_content, metadata, cancel_event,
                   events_set, cancels, last_errors, rebuilds, progress>>

\* lines 238-247: the stored (mtime, size) of every indexed path
Snapshot ==
    /\ rb.pc = "snapshot"
    /\ rb' = [rb EXCEPT !.pc = IF rb.candidates = << >> THEN "stale" ELSE "pass",
                        !.existing = [q \in DOMAIN files |->
                                         [mtime |-> files[q].mtime, size |-> files[q].size]]]
    /\ UNCHANGED <<polvars, extvars, sr, searches, fs, base_exists, fs_ops, fts_available, max_file_size_mb, allowed_roots,
                   excluded_paths, files, file_content, metadata, cancel_event,
                   events_set, cancels, last_skipped, last_errors, rebuilds, progress, h>>

\* path.stat()
StatOf(state) == [mtime |-> MtimeOf(state.ver), size |-> SizeOf(state.ver)]

\* mutant: a candidate counts as unchanged when its mtime alone is the stored one
UnchangedByMtimeOnly(existing, path, stat) ==
    path \in DOMAIN existing /\ existing[path].mtime = stat.mtime

\* line 263: the candidate has a stored pair and both parts equal the stat
Unchanged(existing, path, stat) ==
    /\ path \in DOMAIN existing
    /\ existing[path].mtime = stat.mtime
    /\ existing[path].size = stat.size

\* one turn of the candidate loop (lines 249-281)
CandidateStep ==
    /\ rb.pc = "pass"
    /\ LET idx == rb.idx + 1
           total == Len(rb.candidates)
           path == rb.candidates[idx]
           after == IF idx = total THEN "stale" ELSE "pass"
           state == fs[path]
           stat == StatOf(state)
           read == ReadTextSnippet(path, state)
           snippet == IF read.snippet = << >> THEN NoTextSnippet(path)
                                              ELSE read.snippet[1]
           up == UpsertFile(files, file_content, fts_available, path, stat, snippet)
           visit == [path |-> path,
                     had_record |-> path \in DOMAIN files,
                     stored |-> IF path \in DOMAIN files
                                   THEN <<files[path].mtime, files[path].size>>
                                   ELSE << >>,
                     row |-> IF path \in DOMAIN files THEN <<files[path]>> ELSE << >>,
                     joined |-> JoinedContent(files, file_content, path),
                     row_after |-> IF path \in DOMAIN files' THEN <<files'[path]>>
                                                              ELSE << >>,
                     joined_after |-> JoinedContent(files', file_content', path)]
       IN  IF rb.event \in events_set
              THEN /\ rb' = [rb EXCEPT !.cancelled = TRUE, !.pc = "stale"]
                   /\ UNCHANGED <<files, file_content, last_skipped, last_errors,
                                  progress, h>>
           ELSE IF state.kind \in {"absent", "broken"}
              THEN /\ UNCHANGED <<files, file_content, last_skipped, progress>>
                   /\ rb' = [rb EXCEPT !.idx = idx, !.pc = after,
                                       !.seen_paths = @ \cup {path},
                                       !.processed = @ + 1]
                   /\ last_errors' = RecordError(last_errors, path, "Stat failed: ")
                   /\ h' = [h EXCEPT !.upserted = Append(@,
                               visit @@ [stat_ok |-> FALSE, extracted |-> FALSE,
                                         stat |-> << >>, snippet |-> << >>,
                                         opened |-> FALSE, note |-> NoNote])]
           ELSE IF Unchanged(rb.existing, path, stat)
              THEN /\ UNCHANGED <<files, file_content, last_skipped, last_errors>>
                   /\ rb' = [rb EXCEPT !.idx = idx, !.pc = after,
                                       !.seen_paths = @ \cup {path},
                                       !.processed = @ + 1]
                   /\ progress' = Append(progress, <<idx, total, path>>)
                   /\ h' = [h EXCEPT !.upserted = Append(@,
                               visit @@ [stat_ok |-> TRUE, extracted |-> FALSE,
                                         stat |-> <<stat.mtime, stat.size>>,
                                         snippet |-> << >>, opened |-> FALSE,
                                         note |-> NoNote])]
           ELSE IF ~Utf8Name(path)
              \* the INSERT of _upsert_file raises UnicodeEncodeError (line
              \* 513), which nothing catches: the call ends here
              THEN /\ UNCHANGED <<files, file_content, last_skipped, last_errors,
                                  progress>>
                   /\ rb' = [rb EXCEPT !.idx = idx, !.pc = "raised",
                                       !.seen_paths = @ \cup {path},
                                       !.processed = @ + 1]
                   /\ h' = [h EXCEPT !.upserted = Append(@,
                               visit @@ [stat_ok |-> TRUE, extracted |-> TRUE,
                                         stat |-> <<stat.mtime, stat.size>>,
                                         snippet |-> <<snippet>>,
                                         opened |-> read.opened,
                                         note |-> read.note])]
           ELSE /\ rb' = [rb EXCEPT !.idx = idx, !.pc = after,
                                    !.seen_paths = @ \cup {path},
                                    !.processed = @ + 1,
                                    !.updated = @ + 1]
                /\ files' = up.files
                /\ file_content' = up.file_content
                /\ last_skipped' = IF read.note # NoNote
                                      THEN RecordSkip(last_skipped, path, read.note[1])
                                      ELSE last_skipped
                /\ progress' = Append(progress, <<idx, total, path>>)
                /\ h' = [h EXCEPT !.upserted = Append(@,
                            visit @@ [stat_ok |-> TRUE, extracted |-> TRUE,
                                      stat |-> <<stat.mtime, stat.size>>,
                                      snippet |-> <<snippet>>,
                                      opened |-> read.opened,
                                      note |-> read.note]),
                                  !.extracted = @ \cup {path}]
                /\ UNCHANGED last_errors
    /\ UNCHANGED <<polvars, extvars, sr, searches, fs, base_exists, fs_ops, fts_available, max_file_size_mb, allowed_roots,
                   excluded_paths, metadata, cancel_event, events_set, cancels,
                   rebuilds>>

\* mutant: the stale step is left out
StalePathsNone(existing, seen_paths) == {}

\* mutant: every stored path is stale, whether or not this run saw it
StalePathsIgnoringSeen(existing, seen_paths) == DOMAIN existing

\* line 283: set(existing.keys()) - seen_paths
StalePaths(existing, seen_paths) == DOMAIN existing \ seen_paths

\* lines 283-287: the stored paths this run did not see are deleted
StaleStep ==
    /\ rb.pc = "stale"
    /\ LET stale_paths == StalePaths(rb.existing, rb.seen_paths)
           d == DeleteAll(files, file_content, fts_available, stale_paths)
       IN  /\ files' = d.files
           /\ file_content' = d.file_content
           /\ h' = [h EXCEPT !.deleted = stale_paths \cap DOMAIN files]
    /\ rb' = [rb EXCEPT !.pc = "finish"]
    /\ UNCHANGED <<polvars, extvars, sr, searches, fs, base_exists, fs_ops, fts_available, max_file_size_mb, allowed_roots,
                   excluded_paths, metadata, cancel_event, events_set, cancels,
                   last_skipped, last_errors, rebuilds, progress>>

\* lines 289-312: the bookkeeping metadata and the returned record; the
\* timestamp of last_indexed is the ordinal of the rebuild
RebuildFinish ==
    /\ rb.pc = "finish"
    /\ LET documents == CountFiles(files)
       IN  /\ metadata' = ("last_indexed" :> rebuilds) @@
                          ("document_count" :> ToString(documents)) @@ metadata
           /\ rb' = [rb EXCEPT
                       !.pc = "done",
                       !.result = <<[documents |-> documents,
                                     total_scanned |-> Len(rb.candidates),
                                     updated |-> rb.updated,
                                     processed |-> rb.processed,
                                     skipped |-> Len(last_skipped),
                                     errors |-> Len(last_errors),
                                     cancelled |-> rb.cancelled]>>]
    /\ h' = [h EXCEPT
               !.quiet = IF /\ h.quiet \in {"first", "second"}
                            /\ ~rb.cancelled
                            /\ rb.event \notin events_set
                            THEN "settled" ELSE "none",
               !.quiet_files = files,
               !.quiet_content = file_content,
               !.meta_writes = @ \o <<"last_indexed", "document_count">>]
    /\ UNCHANGED <<polvars, extvars, sr, searches, fs, base_exists, fs_ops, fts_available, max_file_size_mb, allowed_roots,
                   excluded_paths, files, file_content, cancel_event, events_set,
                   cancels, last_skipped, last_errors, rebuilds, progress>>

\* cancel_indexing() (lines 131-132)
CancelIndexing ==
    /\ cancels < MaxCancels
    /\ cancels' = cancels + 1
    /\ LET target == cancel_event
       IN  /\ events_set' = events_set \cup {target}
           /\ h' = [h EXCEPT
                      !.cancel_in_crawl = @ \/ (rb.pc = "crawl" /\ target = rb.event),
                      !.cancel_in_pass = @ \/ (rb.pc = "pass" /\ target = rb.event),
                      !.cancel_in_call = @ \/ rb.pc \in {"install", "crawl", "pass"}]
    /\ UNCHANGED <<polvars, extvars, sr, searches, fs, base_exists, fs_ops, fts_available, max_file_size_mb, allowed_roots,
                   excluded_paths, files, file_content, metadata, cancel_event,
                   last_skipped, last_errors, rebuilds, rb, progress>>

\* ----------------------------------------------------------- the environment
Disturbed(f) == [h EXCEPT !.quiet = "none", !.gone = @ \ f, !.disturbed = TRUE]

\* a file is created or rewritten with another version of its content
WriteFile(f, v) ==
    /\ fs_ops < MaxFsOps
    /\ base_exists
    /\ fs[f] # Present(v)
    /\ fs' = [fs EXCEPT ![f] = Present(v)]
    /\ fs_ops' = fs_ops + 1
    /\ h' = Disturbed({f})
    /\ UNCHANGED <<polvars, extvars, sr, searches, base_exists, fts_available, max_file_size_mb, allowed_roots, excluded_paths,
                   files, file_content, metadata, cancel_event, events_set, cancels,
                   last_skipped, last_errors, rebuilds, rb, progress>>

\* a file is removed, replaced by a dangling link, or made unreadable
SpoilFile(f, kind) ==
    /\ fs_ops < MaxFsOps
    /\ base_exists
    /\ fs[f].kind # kind
    /\ kind = "locked" => fs[f].kind = "file"
    /\ fs' = [fs EXCEPT ![f] = IF kind = "locked" THEN Locked(fs[f].ver)
                               ELSE IF kind = "broken" THEN Broken ELSE Absent]
    /\ fs_ops' = fs_ops + 1
    /\ h' = Disturbed(IF kind = "absent" THEN {} ELSE {f})
    /\ UNCHANGED <<polvars, extvars, sr, searches, base_exists, fts_available, max_file_size_mb, allowed_roots, excluded_paths,
                   files, file_content, metadata, cancel_event, events_set, cancels,
                   last_skipped, last_errors, rebuilds, rb, progress>>

\* the base directory is removed with everything in it
RemoveBase ==
    /\ fs_ops < MaxFsOps
    /\ base_exists
    /\ base_exists' = FALSE
    /\ fs' = [f \in AllFiles |-> Absent]
    /\ fs_ops' = fs_ops + 1
    /\ h' = Disturbed({})
    /\ UNCHANGED <<polvars, extvars, sr, searches, fts_available, max_file_size_mb, allowed_roots, excluded_paths,
                   files, file_content, metadata, cancel_event, events_set, cancels,
                   last_skipped, last_errors, rebuilds, rb, progress>>

Init ==
    /\ pol_op = "none"
    /\ pol_path = << >>
    /\ pol_allowed = << >>
    /\ pol_excluded = << >>
    /\ pol_ret = << >>
    /\ norm_in = << >>
    /\ norm_ret = << >>
    /\ name_in = << >>
    /\ name_ret = << >>
    /\ cwd = HomeDir
    /\ InitIndex

Next ==
    \/ RebuildEnter
    \/ RebuildInstall
    \/ CrawlStep
    \/ Snapshot
    \/ CandidateStep
    \/ StaleStep
    \/ RebuildFinish
    \/ CancelIndexing
    \/ \E f \in Files, v \in Versions : WriteFile(f, v)
    \/ \E f \in Files, kind \in {"absent", "broken", "locked"} : SpoilFile(f, kind)
    \/ RemoveBase

Spec == Init /\ [][Next]_vars

\* ------------------------------------------------- the filesystem watcher
\* the observer of _start_fs_watcher watches the base directory: a change
\* of the disk puts a notification in its queue
Notification(kind, path) == [kind |-> kind, path |-> path]

\* a file is created or rewritten under the eyes of the observer
WatchedWrite(f, v) ==
    /\ fs_ops < MaxFsOps
    /\ base_exists
    /\ fs[f] # Present(v)
    /\ fs' = [fs EXCEPT ![f] = Present(v)]
    /\ fs_ops' = fs_ops + 1
    /\ fs_events' = Append(fs_events,
                           Notification(IF fs[f].kind = "absent" THEN "created"
                                                                 ELSE "modified", f))
    /\ h' = Disturbed({f})
    /\ UNCHANGED <<polvars, storevars, base_path, cwd, conn, decoders, fm_index, summary_queue,
                   manual_index_thread, after_queue, index_complete>>

\* a file is removed under the eyes of the observer
WatchedDelete(f) ==
    /\ fs_ops < MaxFsOps
    /\ base_exists
    /\ fs[f].kind # "absent"
    /\ fs' = [fs EXCEPT ![f] = Absent]
    /\ fs_ops' = fs_ops + 1
    /\ fs_events' = Append(fs_events, Notification("deleted", f))
    /\ h' = Disturbed({})
    /\ UNCHANGED <<polvars, storevars, base_path, cwd, conn, decoders, fm_index, summary_queue,
                   manual_index_thread, after_queue, index_complete>>

\* what the properties keep of a handled notification: the records of the
\* path in the index store before and after the handler
Handled(e, path) ==
    [kind |-> e.kind, path |-> path,
     had_record |-> path \in DOMAIN files,
     has_record |-> path \in DOMAIN files',
     has_content |-> HasContentRecord(files', file_content', fts_available, path),
     row_before |-> IF path \in DOMAIN files THEN <<files[path]>> ELSE << >>,
     row_after |-> IF path \in DOMAIN files' THEN <<files'[path]>> ELSE << >>,
     stat |-> IF fs[path].kind \in {"file", "locked"}
                 THEN <<MtimeOf(fs[path].ver), SizeOf(fs[path].ver)>> ELSE << >>]

\* FSHandler.on_created and on_modified (app_core.py:56-68): the resolved
\* path goes to the summary queue of the file manager
OnCreatedOrModified(kind) ==
    /\ fs_events # << >>
    /\ Head(fs_events).kind = kind
    /\ LET path == Clean(Head(fs_events).path)
       IN  /\ summary_queue' = Append(summary_queue, path)
           /\ UNCHANGED <<files, file_content, fm_index>>
           /\ h' = [h EXCEPT !.handled = <<Handled(Head(fs_events), path)>>]
    /\ fs_events' = Tail(fs_events)
    /\ UNCHANGED <<polvars, fs, fs_ops, base_exists, fts_available, max_file_size_mb,
                   allowed_roots, excluded_paths, metadata, cancel_event, events_set,
                   cancels, last_skipped, last_errors, rebuilds, rb, progress, sr,
                   searches, base_path, cwd, conn, decoders, manual_index_thread, after_queue,
                   index_complete>>

\* FSHandler.on_deleted (app_core.py:70-78): the entry of the path leaves
\* the index of the file manager
OnDeleted ==
    /\ fs_events # << >>
    /\ Head(fs_events).kind = "deleted"
    /\ LET path == Clean(Head(fs_events).path)
       IN  /\ fm_index' = Restrict(fm_index, DOMAIN fm_index \ {path})
           /\ UNCHANGED <<files, file_content, summary_queue>>
           /\ h' = [h EXCEPT !.handled = <<Handled(Head(fs_events), path)>>]
    /\ fs_events' = Tail(fs_events)
    /\ UNCHANGED <<polvars, fs, fs_ops, base_exists, fts_available, max_file_size_mb,
                   allowed_roots, excluded_paths, metadata, cancel_event, events_set,
                   cancels, last_skipped, last_errors, rebuilds, rb, progress, sr,
                   searches, base_path, cwd, conn, decoders, manual_index_thread, after_queue,
                   index_complete>>

\* FileManager._summary_worker (file_manager.py:172-188): a queued path
\* the file manager lists without a summary gets one
SummaryWorker ==
    /\ summary_queue # << >>
    /\ LET fid == Head(summary_queue)
       IN  fm_index' = IF fid \in DOMAIN fm_index /\ ~fm_index[fid].summary
                          THEN [fm_index EXCEPT ![fid].summary = TRUE]
                          ELSE fm_index
    /\ summary_queue' = Tail(summary_queue)
    /\ UNCHANGED <<polvars, idxvars, base_path, cwd, conn, decoders, fs_events,
                   manual_index_thread, after_queue, index_complete>>

\* the file manager lists the files the disk holds, without summaries yet;
\* the indexer is newly constructed
InitWatch ==
    /\ pol_op = "none"
    /\ pol_path = << >>
    /\ pol_allowed = << >>
    /\ pol_excluded = << >>
    /\ pol_ret = << >>
    /\ norm_in = << >>
    /\ norm_ret = << >>
    /\ name_in = << >>
    /\ name_ret = << >>
    /\ base_path = BasePath
    /\ cwd = HomeDir
    /\ conn = "open"
    /\ decoders = {}
    /\ \E disk \in [Files -> {Absent, Present(1)}] :
          /\ fs = [f \in AllFiles |-> IF f \in Files THEN disk[f] ELSE Absent]
          /\ fm_index = [f \in {x \in Files : disk[x] # Absent} |->
                            [summary |-> FALSE]]
    /\ summary_queue = << >>
    /\ fs_events = << >>
    /\ manual_index_thread = [requests |-> 0, started |-> 0, returned |-> 0]
    /\ after_queue = << >>
    /\ index_complete = << >>
    /\ base_exists = TRUE
    /\ fs_ops = 0
    /\ fts_available \in BOOLEAN
    /\ max_file_size_mb = EffectiveSizeMb(DefaultMaxFileSizeMb)
    /\ allowed_roots = <<BasePath>>
    /\ excluded_paths = << <<"etc">> >>
    /\ files = << >>
    /\ file_content = << >>
    /\ metadata = << >>
    /\ cancel_event = InitEvent
    /\ events_set = {}
    /\ cancels = 0
    /\ last_skipped = << >>
    /\ last_errors = << >>
    /\ rebuilds = 0
    /\ rb = IdleLocals
    /\ progress = << >>
    /\ sr = IdleSearch
    /\ searches = 0
    /\ h = NoHistory

NextWatch ==
    \/ RebuildEnter
    \/ RebuildInstall
    \/ CrawlStep
    \/ Snapshot
    \/ CandidateStep
    \/ StaleStep
    \/ RebuildFinish
    \/ \E f \in Files, v \in Versions : Returned /\ WatchedWrite(f, v)
    \/ \E f \in Files : Returned /\ WatchedDelete(f)
    \/ OnCreatedOrModified("created")
    \/ OnCreatedOrModified("modified")
    \/ OnDeleted
    \/ SummaryWorker

SpecWatch == InitWatch /\ [][NextWatch]_vars

\* ----------------------------------------- the rebuild the application starts
\* start_knowledge_index requests made
MaxStarts == 3

\* Thread.is_alive() of _manual_index_thread
IsAlive(thread) == thread.started > thread.returned

\* NousApp.start_knowledge_index (app_core.py:754-768), on the Tk thread:
\* nothing happens while the thread of an earlier request is alive,
\* otherwise a thread is started and the call returns
StartKnowledgeIndex ==
    /\ manual_index_thread.requests < MaxStarts
    /\ IsAlive(manual_index_thread) \/ manual_index_thread.started < MaxRebuilds
    /\ manual_index_thread' =
           IF IsAlive(manual_index_thread)
              THEN [manual_index_thread EXCEPT !.requests = @ + 1]
              ELSE [manual_index_thread EXCEPT !.requests = @ + 1, !.started = @ + 1]
    /\ UNCHANGED <<polvars, idxvars, base_path, cwd, conn, decoders, fm_index, summary_queue,
                   fs_events, after_queue, index_complete>>

\* task(), line 764: the started thread calls rebuild_index
TaskCall ==
    /\ rebuilds < manual_index_thread.started
    /\ RebuildEnter

\* task(), line 765: rebuild_index has returned; the thread hands the
\* stats to the Tk thread and ends
TaskReturn ==
    /\ rb.pc = "done"
    /\ manual_index_thread.returned < rebuilds
    /\ after_queue' = Append(after_queue, rb.result[1])
    /\ manual_index_thread' = [manual_index_thread EXCEPT !.returned = @ + 1]
    /\ UNCHANGED <<polvars, idxvars, base_path, cwd, conn, decoders, fm_index, summary_queue,
                   fs_events, index_complete>>

\* task(), line 764: rebuild_index has raised; nothing catches it and the
\* thread ends
TaskDie ==
    /\ rb.pc = "raised"
    /\ manual_index_thread.returned < rebuilds
    /\ manual_index_thread' = [manual_index_thread EXCEPT !.returned = @ + 1]
    /\ UNCHANGED <<polvars, idxvars, base_path, cwd, conn, decoders, fm_index, summary_queue,
                   fs_events, after_queue, index_complete>>

\* the Tk main loop runs a callback of root.after: _on_index_complete(stats)
\* (app_core.py:773-782)
OnIndexComplete ==
    /\ after_queue # << >>
    /\ index_complete' = Append(index_complete, Head(after_queue))
    /\ after_queue' = Tail(after_queue)
    /\ UNCHANGED <<polvars, idxvars, base_path, cwd, conn, decoders, fm_index, summary_queue,
                   fs_events, manual_index_thread>>

\* the base directory holds the notes file and perhaps a file whose name is
\* not valid UTF-8
InitApp ==
    /\ pol_op = "none"
    /\ pol_path = << >>
    /\ pol_allowed = << >>
    /\ pol_excluded = << >>
    /\ pol_ret = << >>
    /\ norm_in = << >>
    /\ norm_ret = << >>
    /\ name_in = << >>
    /\ name_ret = << >>
    /\ base_path = BasePath
    /\ cwd = HomeDir
    /\ conn = "open"
    /\ decoders = {}
    /\ fm_index = << >>
    /\ summary_queue = << >>
    /\ fs_events = << >>
    /\ manual_index_thread = [requests |-> 0, started |-> 0, returned |-> 0]
    /\ after_queue = << >>
    /\ index_complete = << >>
    /\ \E odd \in {Absent, Present(1)}, report \in {Absent, Present(1)} :
          fs = [f \in AllFiles |-> IF f = NotesFile THEN Present(1)
                                   ELSE IF f = ReportFile THEN report
                                   ELSE IF f = OddFile THEN odd ELSE Absent]
    /\ base_exists = TRUE
    /\ fs_ops = 0
    /\ fts_available \in BOOLEAN
    /\ max_file_size_mb = EffectiveSizeMb(DefaultMaxFileSizeMb)
    /\ allowed_roots = <<BasePath>>
    /\ excluded_paths = << <<"etc">> >>
    /\ files = << >>
    /\ file_content = << >>
    /\ metadata = << >>
    /\ cancel_event = InitEvent
    /\ events_set = {}
    /\ cancels = 0
    /\ last_skipped = << >>
    /\ last_errors = << >>
    /\ rebuilds = 0
    /\ rb = IdleLocals
    /\ progress = << >>
    /\ sr = IdleSearch
    /\ searches = 0
    /\ h = NoHistory

NextApp ==
    \/ StartKnowledgeIndex
    \/ TaskCall
    \/ RebuildInstall
    \/ CrawlStep
    \/ Snapshot
    \/ CandidateStep
    \/ StaleStep
    \/ RebuildFinish
    \/ TaskReturn
    \/ TaskDie
    \/ OnIndexComplete
    \/ \E f \in Files, v \in Versions : WriteFile(f, v)
    \/ RemoveBase

SpecApp == InitApp /\ [][NextApp]_vars

\* ------------------------------------------------------------ the lock
\* one access of a field of the indexer: what is touched, how, and whether
\* inside a "with self._lock" block
Access(target, mode, locked) == [target |-> target, mode |-> mode, locked |-> locked]

\* the accesses rebuild_index makes in the step it takes from position pc
RebuildAccess(pc) ==
    CASE pc \in {"idle", "done", "raised"} ->
             \* get_base_path -> _get_meta (lines 195-198)
             { Access("_conn", "read", TRUE) }
      [] pc = "install" ->
             \* lines 231-232
             { Access("_last_skipped", "write", FALSE),
               Access("_last_errors", "write", FALSE) }
      [] pc = "crawl" ->
             \* _record_skip from _collect_candidates (lines 487, 497, 508, 601)
             { Access("_last_skipped", "write", FALSE) }
      [] pc = "snapshot" ->
             \* lines 238-241
             { Access("_conn", "read", TRUE) }
      [] pc = "pass" ->
             \* lines 259, 273-274, 278
             { Access("_last_errors", "write", FALSE),
               Access("_conn", "write", TRUE),
               Access("_last_skipped", "write", FALSE) }
      [] pc = "stale" ->
             \* lines 285-287
             { Access("_conn", "write", TRUE) }
      [] pc = "finish" ->
             \* _count_files, _update_meta, lines 300-301 and 309-310
             { Access("_conn", "read", TRUE),
               Access("_conn", "write", TRUE),
               Access("_last_skipped", "read", FALSE),
               Access("_last_errors", "read", FALSE) }
      [] OTHER -> {}

\* the accesses search makes in the step it takes from position pc
SearchAccess(pc) ==
    CASE pc \in {"idle", "done"} ->
             \* lines 342-345
             { Access("_conn", "read", TRUE) }
      [] pc = "rank" ->
             \* lines 390-391 and 408-409
             { Access("_conn", "read", TRUE) }
      [] OTHER -> {}

\* ------------------------------------------------- changing the base path
\* mutant: the base path is assigned before the checks
SetBasePathAssignFirst(path) ==
    LET resolved == Clean(path)
        c == CheckAllowed(resolved, allowed_roots, excluded_paths)
    IN  IF ~c.ok
           THEN [raised |-> "PermissionError", base_path |-> resolved,
                 metadata |-> metadata]
        ELSE IF ~Exists(resolved)
           THEN [raised |-> "FileNotFoundError", base_path |-> resolved,
                 metadata |-> metadata]
        ELSE [raised |-> "none", base_path |-> resolved,
              metadata |-> ("base_path" :> resolved) @@ metadata]

\* set_base_path(path), lines 204-211: what it raises, and the base path
\* and the metadata it leaves
SetBasePathOutcome(path) ==
    LET resolved == Clean(path)
        c == CheckAllowed(resolved, allowed_roots, excluded_paths)
    IN  IF ~c.ok
           THEN [raised |-> "PermissionError", base_path |-> base_path,
                 metadata |-> metadata]
        ELSE IF ~Exists(resolved)
           THEN [raised |-> "FileNotFoundError", base_path |-> base_path,
                 metadata |-> metadata]
        ELSE [raised |-> "none", base_path |-> resolved,
              metadata |-> ("base_path" :> resolved) @@ metadata]

\* the paths a caller hands to set_base_path
BaseArgs ==
    { BasePath, DocsDir, <<"etc">>, <<"lnk">>, <<"srv">>, <<"home", "missing">>,
      <<"~", "docs">>, <<"home", "docs", "..">>, <<"home", "..", "etc">> }

\* set_base_path(path), called while no rebuild runs
SetBasePath(path) ==
    /\ Returned
    /\ LET out == SetBasePathOutcome(path)
       IN  /\ base_path' = out.base_path
           /\ metadata' = out.metadata
           /\ h' = [h EXCEPT !.set_base =
                       <<[path |-> path, raised |-> out.raised,
                          existed |-> Exists(Clean(path)),
                          before |-> <<base_path, metadata>>,
                          after |-> <<out.base_path, out.metadata>>]>>]
    /\ UNCHANGED <<polvars, idxbase, cwd, conn, decoders, fm_index, summary_queue, fs_events,
                   manual_index_thread, after_queue, index_complete>>

\* the indexer is constructed over the base directory with one of the
\* policies; the disk holds both files
InitBase ==
    /\ Init
    /\ fts_available
    /\ max_file_size_mb = DefaultMaxFileSizeMb

NextBase ==
    \/ \E path \in BaseArgs : SetBasePath(path)
    \/ RebuildEnter
    \/ RebuildInstall
    \/ CrawlStep
    \/ Snapshot
    \/ CandidateStep
    \/ StaleStep
    \/ RebuildFinish
    \/ RemoveBase

SpecBase == InitBase /\ [][NextBase]_vars

\* ------------------------------------------ rebuilds over PDF and DOCX files
\* the decoders of _read_text_snippet
OptionalDecoders == {"fitz", "docx"}

\* the base directory holds the notes file and any of the PDF and the DOCX,
\* small or above the size ceiling; any of the decoders is installed
InitDecoder ==
    /\ pol_op = "none"
    /\ pol_path = << >>
    /\ pol_allowed = << >>
    /\ pol_excluded = << >>
    /\ pol_ret = << >>
    /\ norm_in = << >>
    /\ norm_ret = << >>
    /\ name_in = << >>
    /\ name_ret = << >>
    /\ base_path = BasePath
    /\ cwd = HomeDir
    /\ conn = "open"
    /\ decoders \in SUBSET OptionalDecoders
    /\ fm_index = << >>
    /\ summary_queue = << >>
    /\ fs_events = << >>
    /\ manual_index_thread = [requests |-> 0, started |-> 0, returned |-> 0]
    /\ after_queue = << >>
    /\ index_complete = << >>
    /\ \E disk \in [PaperFiles -> {Absent, Present(1), Present(2)}] :
          fs = [f \in AllFiles |-> IF f \in PaperFiles THEN disk[f]
                                   ELSE IF f = NotesFile THEN Present(1) ELSE Absent]
    /\ base_exists = TRUE
    /\ fs_ops = 0
    /\ fts_available \in BOOLEAN
    /\ max_file_size_mb = EffectiveSizeMb(DefaultMaxFileSizeMb)
    /\ allowed_roots = <<BasePath>>
    /\ excluded_paths = << <<"etc">> >>
    /\ files = << >>
    /\ file_content = << >>
    /\ metadata = << >>
    /\ cancel_event = InitEvent
    /\ events_set = {}
    /\ cancels = 0
    /\ last_skipped = << >>
    /\ last_errors = << >>
    /\ rebuilds = 0
    /\ rb = IdleLocals
    /\ progress = << >>
    /\ sr = IdleSearch
    /\ searches = 0
    /\ h = NoHistory

NextDecoder ==
    \/ RebuildEnter
    \/ RebuildInstall
    \/ CrawlStep
    \/ Snapshot
    \/ CandidateStep
    \/ StaleStep
    \/ RebuildFinish
    \/ \E f \in PaperFiles, v \in Versions : WriteFile(f, v)
    \/ \E f \in PaperFiles : SpoilFile(f, "locked")

SpecDecoder == InitDecoder /\ [][NextDecoder]_vars

\* search calls
MaxSearches == 1

\* what a caller types
QueryChoices ==
    { << >>, <<" ">>, <<" ", "\t">>, <<"a", ".", "m", "d">>, <<" ", "A", ".", "m", "d">>,
      <<"m", "d">>, <<"w", "w">>, <<"a", ".", "m">>, <<"b", "x", "m", "d">> }

LimitChoices == {0, 20}

\* search, lines 334-345: an empty query ends the call, any other reads the
\* file rows under the lock
SearchStart(raw, limit) ==
    /\ sr.pc \in {"idle", "done", "raised"}
    /\ searches < MaxSearches
    /\ searches' = searches + 1
    /\ LET query == Strip(raw)
       IN  IF query = << >>
              THEN sr' = [IdleSearch EXCEPT !.pc = "done", !.raw = raw, !.asked = limit]
              ELSE sr' = [pc |-> "rank", raw |-> raw, query |-> query,
                          asked |-> limit, limit |-> Max(1, limit),
                          file_rows |-> [q \in DOMAIN files |->
                                            [mtime |-> files[q].mtime,
                                             size |-> files[q].size]],
                          result |-> << >>, reads |-> 1, hits |-> {}]
    /\ UNCHANGED <<polvars, extvars, fs, base_exists, fs_ops, fts_available, max_file_size_mb, allowed_roots,
                   excluded_paths, files, file_content, metadata, cancel_event,
                   events_set, cancels, last_skipped, last_errors, rebuilds, rb,
                   progress, h>>

\* the MATCH expression "token*" of a token that holds a backslash is no
\* FTS5 query: execute raises sqlite3.OperationalError, which search does
\* not catch
FtsSyntaxError(tokens) ==
    \E i \in 1..Len(tokens) : \E j \in 1..Len(tokens[i]) : tokens[i][j] = "\\"

\* search, lines 347-452: the content query under the lock, the merge and
\* the ranking
SearchRank ==
    /\ sr.pc = "rank"
    /\ IF fts_available /\ FtsSyntaxError(Tokens(Lower(sr.query)))
          THEN sr' = [sr EXCEPT !.pc = "raised", !.reads = @ + 1]
          ELSE sr' = [sr EXCEPT
                !.pc = "done",
                !.result = Ranked(sr.file_rows, files, file_content, fts_available,
                                  sr.query, sr.limit),
                !.reads = IF Tokens(Lower(sr.query)) = << >> THEN @ ELSE @ + 1,
                !.hits = DOMAIN ContentScores(files, file_content, fts_available,
                                              Lower(sr.query),
                                              Tokens(Lower(sr.query)))]
    /\ UNCHANGED <<polvars, extvars, searches, fs, base_exists, fs_ops, fts_available, max_file_size_mb,
                   allowed_roots, excluded_paths, files, file_content, metadata,
                   cancel_event, events_set, cancels, last_skipped, last_errors,
                   rebuilds, rb, progress, h>>

NextSearch ==
    \/ RebuildEnter
    \/ RebuildInstall
    \/ CrawlStep
    \/ Snapshot
    \/ CandidateStep
    \/ StaleStep
    \/ RebuildFinish
    \/ \E f \in Files : Returned /\ SpoilFile(f, "absent")
    \/ \E raw \in QueryChoices, limit \in LimitChoices : SearchStart(raw, limit)
    \/ SearchRank

\* the disk holds any version of each file, or lacks it, when the indexer
\* is constructed
InitSearch ==
    /\ InitExt
    /\ cwd = HomeDir
    /\ pol_op = "none"
    /\ pol_path = << >>
    /\ pol_allowed = << >>
    /\ pol_excluded = << >>
    /\ pol_ret = << >>
    /\ norm_in = << >>
    /\ norm_ret = << >>
    /\ name_in = << >>
    /\ name_ret = << >>
    /\ \E disk \in [Files -> {Absent} \cup {Present(v) : v \in Versions}] :
          fs = [f \in AllFiles |-> IF f \in Files THEN disk[f] ELSE Absent]
    /\ base_exists = TRUE
    /\ fs_ops = 0
    /\ fts_available \in BOOLEAN
    /\ max_file_size_mb = EffectiveSizeMb(DefaultMaxFileSizeMb)
    /\ \E pc \in PolicyChoices :
          /\ allowed_roots = pc.allowed
          /\ excluded_paths = pc.excluded
    /\ files = << >>
    /\ file_content = << >>
    /\ metadata = << >>
    /\ cancel_event = InitEvent
    /\ events_set = {}
    /\ cancels = 0
    /\ last_skipped = << >>
    /\ last_errors = << >>
    /\ rebuilds = 0
    /\ rb = IdleLocals
    /\ progress = << >>
    /\ sr = IdleSearch
    /\ searches = 0
    /\ h = NoHistory

SpecSearch == InitSearch /\ [][NextSearch]_vars

\* ------------------------------------- a search beside a changing disk
\* the queries of this machine: one that hits the content of the notes
\* file, one that names a suffix, one that names a file, one with a
\* backslash
BesideQueries == { <<"w", "w">>, <<"m", "d">>, <<"a", ".", "m", "d">>, <<"w", "\\">> }

\* the disk holds each file in its first version or lacks it; the policy
\* admits the base directory with everything below it
InitBeside ==
    /\ InitSearch
    /\ \A f \in Files : fs[f] \in {Absent, Present(1)}
    /\ allowed_roots = <<BasePath>>
    /\ Len(excluded_paths) = 1

NextBeside ==
    \/ RebuildEnter
    \/ RebuildInstall
    \/ CrawlStep
    \/ Snapshot
    \/ CandidateStep
    \/ StaleStep
    \/ RebuildFinish
    \/ \E f \in Files : SpoilFile(f, "absent")
    \/ \E f \in Files : WriteFile(f, 1)
    \/ \E raw \in BesideQueries, limit \in LimitChoices : SearchStart(raw, limit)
    \/ SearchRank

SpecBeside == InitBeside /\ [][NextBeside]_vars

\* ------------------------------------------------ closing the connection
\* close(), lines 454-458: under the lock the connection is closed and the
\* attribute set to None; NousApp._on_close (app_core.py 290-304) calls it
\* after "Close anyway?" while the index thread is still alive, and neither
\* cancels nor joins that thread
Close ==
    /\ conn' = "none"
    /\ UNCHANGED <<polvars, idxvars, base_path, cwd, decoders, fm_index, summary_queue,
                   fs_events, manual_index_thread, after_queue, index_complete>>

\* the next step of the running rebuild executes a statement on self._conn:
\* the snapshot (line 239), an upsert (line 274), a delete of a stale path
\* (line 286), the count and the metadata (lines 289-291)
RebuildTouchesStore ==
    \/ rb.pc \in {"snapshot", "finish"}
    \/ rb.pc = "stale" /\ StalePaths(rb.existing, rb.seen_paths) # {}
    \/ /\ rb.pc = "pass"
       /\ rb.event \notin events_set
       /\ LET path == rb.candidates[rb.idx + 1]
          IN  /\ fs[path].kind \notin {"absent", "broken"}
              /\ ~Unchanged(rb.existing, path, StatOf(fs[path]))

\* the next step of the running search executes the content query on
\* self._conn (lines 390-391, 408-409)
SearchTouchesStore == sr.pc = "rank" /\ Tokens(Lower(sr.query)) # << >>

\* self._conn.execute with self._conn None: AttributeError, which neither
\* rebuild_index nor its caller catches
RebuildOnClosed ==
    /\ conn = "none"
    /\ RebuildTouchesStore
    /\ rb' = [rb EXCEPT !.pc = "raised"]
    /\ h' = [h EXCEPT !.closed_use = @ \cup {"rebuild_index"}]
    /\ UNCHANGED <<polvars, extvars, sr, searches, fs, base_exists, fs_ops, fts_available,
                   max_file_size_mb, allowed_roots, excluded_paths, files,
                   file_content, metadata, cancel_event, events_set, cancels,
                   last_skipped, last_errors, rebuilds, progress>>

\* the same in search
SearchOnClosed ==
    /\ conn = "none"
    /\ SearchTouchesStore
    /\ sr' = [sr EXCEPT !.pc = "raised"]
    /\ h' = [h EXCEPT !.closed_use = @ \cup {"search"}]
    /\ UNCHANGED <<polvars, extvars, searches, fs, base_exists, fs_ops, fts_available,
                   max_file_size_mb, allowed_roots, excluded_paths, files,
                   file_content, metadata, cancel_event, events_set, cancels,
                   last_skipped, last_errors, rebuilds, rb, progress>>

CloseQueries == { <<"w", "w">>, <<"m", "d">> }

\* no call is started after the window is destroyed; a call in progress
\* takes its next step from an open connection, or without one when the
\* step needs none
NextClose ==
    \/ conn = "open" /\ RebuildEnter
    \/ RebuildInstall
    \/ CrawlStep
    \/ conn = "open" /\ Snapshot
    \/ ~(conn = "none" /\ RebuildTouchesStore) /\ CandidateStep
    \/ ~(conn = "none" /\ RebuildTouchesStore) /\ StaleStep
    \/ conn = "open" /\ RebuildFinish
    \/ RebuildOnClosed
    \/ \E raw \in CloseQueries, limit \in LimitChoices :
          conn = "open" /\ SearchStart(raw, limit)
    \/ ~(conn = "none" /\ SearchTouchesStore) /\ SearchRank
    \/ SearchOnClosed
    \/ conn = "open" /\ Close

SpecClose == InitBeside /\ [][NextClose]_vars

\* ------------------------------------------- the path policy as a machine
SeqsUpTo(S, n) == UNION {[1..k -> S] : k \in 0..n}

\* paths a caller asks about
QueryPaths ==
    { << >>, <<"etc">>, <<"etc", "passwd">>, <<"Etc">>, <<"etcetera">>,
      <<"lnk">>, <<"lnk", "passwd">>, <<"home">>, <<"home", "docs">>,
      <<"home", "..", "etc">>, <<"~", "docs">>, <<"srv">> }

\* entries of the allowed-root and excluded lists
RootEntries == { << >>, <<"etc">>, <<"lnk">>, <<"home">> }

\* entries of a list handed to normalise_paths
ListEntries ==
    { None, <<"etc">>, <<"Etc">>, <<"lnk">>, <<"home">>, <<"~">>, <<"Home", "docs">>,
      <<".", "rel">>, <<"~nouser">> }

InitIsAllowed ==
    /\ pol_op = "is_allowed"
    /\ pol_path \in QueryPaths
    /\ pol_allowed \in SeqsUpTo(RootEntries, MaxRoots)
    /\ pol_excluded \in SeqsUpTo(RootEntries, MaxRoots)
    /\ pol_ret = << >>
    /\ norm_in = << >>
    /\ norm_ret = << >>
    /\ name_in = << >>
    /\ name_ret = << >>
    /\ cwd = HomeDir

InitNormalise ==
    /\ pol_op = "normalise_paths"
    /\ pol_path = << >>
    /\ pol_allowed = << >>
    /\ pol_excluded = << >>
    /\ pol_ret = << >>
    /\ norm_in \in SeqsUpTo(ListEntries, MaxList)
    /\ norm_ret = << >>
    /\ name_in = << >>
    /\ name_ret = << >>
    /\ cwd \in {HomeDir, Gone}

InitPolicy ==
    /\ InitIsAllowed \/ InitNormalise
    /\ InitIndex
    /\ fts_available
    /\ max_file_size_mb = DefaultMaxFileSizeMb
    /\ allowed_roots = <<BasePath>>
    /\ Len(excluded_paths) = 1

CallIsAllowed ==
    /\ pol_op = "is_allowed"
    /\ pol_ret = << >>
    /\ pol_ret' = <<IsAllowed(pol_path, pol_allowed, pol_excluded)>>
    /\ UNCHANGED <<pol_op, pol_path, pol_allowed, pol_excluded, norm_in, norm_ret,
                   name_in, name_ret, idxvars, extvars>>

\* the RuntimeError of expanduser is not an OSError: it leaves _clean and
\* normalise_paths
NormaliseRaises(values) ==
    \E i \in 1..Len(values) : values[i] # None /\ ExpanduserRaises(values[i])

CallNormalisePaths ==
    /\ pol_op = "normalise_paths"
    /\ norm_ret = << >>
    /\ IF NormaliseRaises(norm_in)
          THEN pol_op' = "raised" /\ UNCHANGED norm_ret
          ELSE norm_ret' = <<NormalisePaths(norm_in)>> /\ UNCHANGED pol_op
    /\ UNCHANGED <<pol_path, pol_allowed, pol_excluded, pol_ret, norm_in,
                   name_in, name_ret, idxvars, extvars>>

NextPolicy == CallIsAllowed \/ CallNormalisePaths

SpecPolicy == InitPolicy /\ [][NextPolicy]_vars

\* ------------------------------------------------------ the configuration
\* default_excluded_paths(): the system directories (two of the twelve)
DefaultExcludedPaths == << <<"etc">>, <<"boot">> >>

\* default_allowed_roots(): the home directory and the working directory,
\* here the same
DefaultAllowedRoots == <<HomeDir>>

\* "x or y" of two lists
OrDefault(list, default) == IF list = << >> THEN default ELSE list

\* base + [path for path in extras if path not in base]
Merged(base, extras) ==
    LET InBase(path) == \E i \in 1..Len(base) : base[i] = path
    IN  base \o SelectSeq(extras, LAMBDA path : ~InBase(path))

\* arguments of __init__ and update_policy: << >> is None, <<x>> is x
AllowedArgs ==
    { << >>, << << >> >>, << <<BasePath>> >>, << <<<<"srv">>>> >>,
      << <<<<"srv">>, BasePath>> >> }
ExcludedArgs ==
    { << >>, << << >> >>, << <<DocsDir>> >>, << <<<<"etc">>, DocsDir>> >>,
      << <<<<"lnk">>, <<"Boot">>>> >> }
SizeArgs == { << >>, <<0>>, <<1>>, <<2>>, <<2048>>, <<2049>>, <<4096>> }

\* normalise_paths(values), values being None or a list
NormaliseArg(arg) == IF arg = << >> THEN << >> ELSE NormalisePaths(arg[1])

\* DataIndexer.__init__, lines 97-100, with the arguments a caller gives
InitConfig ==
    /\ InitExt
    /\ cwd = HomeDir
    /\ pol_op = "none"
    /\ pol_path = << >>
    /\ pol_allowed = << >>
    /\ pol_excluded = << >>
    /\ pol_ret = << >>
    /\ norm_in = << >>
    /\ norm_ret = << >>
    /\ name_in = << >>
    /\ name_ret = << >>
    /\ fs = [f \in AllFiles |-> IF f \in Files THEN Present(1) ELSE Absent]
    /\ base_exists = TRUE
    /\ fs_ops = 0
    /\ fts_available = TRUE
    /\ \E a \in AllowedArgs, e \in ExcludedArgs, m \in SizeArgs :
          /\ allowed_roots = OrDefault(NormaliseArg(a), DefaultAllowedRoots)
          /\ excluded_paths = OrDefault(NormaliseArg(e), DefaultExcludedPaths)
          /\ max_file_size_mb =
                 EffectiveSizeMb(IF m = << >> THEN DefaultMaxFileSizeMb ELSE m[1])
    /\ files = << >>
    /\ file_content = << >>
    /\ metadata = << >>
    /\ cancel_event = InitEvent
    /\ events_set = {}
    /\ cancels = 0
    /\ last_skipped = << >>
    /\ last_errors = << >>
    /\ rebuilds = 0
    /\ rb = IdleLocals
    /\ progress = << >>
    /\ sr = IdleSearch
    /\ searches = 0
    /\ h = NoHistory

\* update_policy(allowed_roots, excluded_paths, max_file_size_mb), lines
\* 114-129
UpdatePolicy(a, e, m) ==
    /\ allowed_roots' = IF a = << >> THEN allowed_roots
                        ELSE OrDefault(NormaliseArg(a), DefaultAllowedRoots)
    /\ excluded_paths' = IF e = << >> THEN excluded_paths
                         ELSE Merged(DefaultExcludedPaths, NormaliseArg(e))
    /\ max_file_size_mb' = IF m = << >> THEN max_file_size_mb
                           ELSE EffectiveSizeMb(m[1])
    /\ UNCHANGED <<polvars, extvars, fs, base_exists, fs_ops, fts_available, files, file_content,
                   metadata, cancel_event, events_set, cancels, last_skipped,
                   last_errors, rebuilds, rb, progress, sr, searches, h>>

\* update_policy(allowed_roots, excluded_paths) called while no rebuild runs
UpdatePolicyBetweenRuns(a, e) == Returned /\ UpdatePolicy(a, e, << >>)

NextConfig ==
    \E a \in AllowedArgs, e \in ExcludedArgs, m \in SizeArgs : UpdatePolicy(a, e, m)

SpecConfig == InitConfig /\ [][NextConfig]_vars

\* ------------------------- rebuilds with the policy and the base changing
\* the indexer is constructed over the base directory, which its policy
\* admits with everything below it
InitTighten ==
    /\ Init
    /\ fts_available
    /\ max_file_size_mb = DefaultMaxFileSizeMb
    /\ allowed_roots = <<BasePath>>
    /\ Len(excluded_paths) = 1

\* the update_policy calls of this machine: the allowed roots moved away
\* from the base, the sub-directory excluded
TightenAllowedArgs == { << >>, << <<<<"srv">>>> >> }
TightenExcludedArgs == { << >>, << <<DocsDir>> >> }

NextTighten ==
    \/ \E a \in TightenAllowedArgs, e \in TightenExcludedArgs :
          UpdatePolicyBetweenRuns(a, e)
    \/ \E path \in {BasePath, DocsDir} : SetBasePath(path)
    \/ RebuildEnter
    \/ RebuildInstall
    \/ CrawlStep
    \/ Snapshot
    \/ CandidateStep
    \/ StaleStep
    \/ RebuildFinish
    \/ CancelIndexing

SpecTighten == InitTighten /\ [][NextTighten]_vars

\* ----------------------------------------------- the name score, applied
\* queries and names of files in one directory: for each query a name equal
\* to it, one it starts, one that contains it, one that resembles it only
NameQueries == { <<"a", "b", "m">>, <<"A", "w", "m">>, <<"a", "w">>, <<"x", "x">> }
FileNameChoices == { "abm", "abmd", "xabm", "abd", "awm", "awmd", "xawm", "awd", "xx" }

InitNameScore ==
    /\ pol_op = "name_score"
    /\ pol_path = << >>
    /\ pol_allowed = << >>
    /\ pol_excluded = << >>
    /\ pol_ret = << >>
    /\ norm_in = << >>
    /\ norm_ret = << >>
    /\ \E q \in NameQueries, v \in Versions :
       \E n1, n2 \in FileNameChoices :
          /\ n1 # n2
          /\ name_in = <<[query |-> q, names |-> {n1, n2}, mtime |-> MtimeOf(v)]>>
    /\ name_ret = << >>
    /\ InitIndex
    /\ cwd = HomeDir
    /\ fts_available
    /\ max_file_size_mb = DefaultMaxFileSizeMb
    /\ allowed_roots = <<BasePath>>
    /\ Len(excluded_paths) = 1

\* lines 339-374 of search over the rows of the files named, all of them in
\* the base directory and of one modification time
CallNameScore ==
    /\ pol_op = "name_score"
    /\ name_ret = << >>
    /\ LET lower_query == Lower(name_in[1].query)
           tokens == Tokens(lower_query)
       IN  name_ret' = <<[n \in name_in[1].names |->
                            NameScore(lower_query, tokens, BasePath \o <<n>>,
                                      name_in[1].mtime)]>>
    /\ UNCHANGED <<pol_op, pol_path, pol_allowed, pol_excluded, pol_ret, norm_in,
                   norm_ret, name_in, idxvars, extvars>>

NextNameScore == CallNameScore

SpecNameScore == InitNameScore /\ [][NextNameScore]_vars

\* ------------------------------------------------ claims on the path policy
UnderSome(path, seq) == \E i \in 1..Len(seq) : IsUnder(path, seq[i])

\* C1: a path that equals or lies under any excluded entry is denied by
\* is_allowed, also when it equals or lies under an allowed root.
C1_ExcludedAlwaysDenied ==
    (pol_ret # << >> /\ UnderSome(pol_path, pol_excluded)) => ~pol_ret[1].ok

C1_Witness ==
    /\ pol_ret # << >>
    /\ UnderSome(pol_path, pol_excluded)
    /\ UnderSome(pol_path, pol_allowed)
    /\ ~pol_ret[1].ok

\* C2: a path under no excluded entry is allowed exactly when it equals or
\* lies under some allowed root; with no allowed root every path is denied.
C2_AllowedIffUnderRoot ==
    pol_ret # << >> =>
        /\ ~UnderSome(pol_path, pol_excluded) =>
               (pol_ret[1].ok <=> UnderSome(pol_path, pol_allowed))
        /\ pol_allowed = << >> => ~pol_ret[1].ok

C2_Witness ==
    /\ pol_ret # << >>
    /\ ~UnderSome(pol_path, pol_excluded)
    /\ pol_excluded # << >>
    /\ UnderSome(pol_path, pol_allowed)
    /\ pol_ret[1].ok

\* C3 as stated: the reason of a denial is exactly "excluded path" for a
\* path under an excluded entry and exactly "outside allowed roots" otherwise.
C3_ReasonAsStated ==
    (pol_ret # << >> /\ ~pol_ret[1].ok) =>
        pol_ret[1].reason =
            IF UnderSome(pol_path, pol_excluded)
               THEN [text |-> "excluded path", args |-> << >>]
               ELSE [text |-> "outside allowed roots", args |-> << >>]

\* C3 amended: the reason of a denial is "Excluded path: <entry>", entry
\* being the first excluded entry that contains the path, when there is
\* one, and "Outside allowed roots" otherwise.
C3_ReasonNamesFirstEntry ==
    (pol_ret # << >> /\ ~pol_ret[1].ok) =>
        IF UnderSome(pol_path, pol_excluded)
           THEN LET first == CHOOSE i \in 1..Len(pol_excluded) :
                                /\ IsUnder(pol_path, pol_excluded[i])
                                /\ \A j \in 1..(i - 1) : ~IsUnder(pol_path, pol_excluded[j])
                IN  /\ pol_ret[1].reason.text = "Excluded path: "
                    /\ pol_ret[1].reason.args = <<pol_excluded[first]>>
           ELSE /\ pol_ret[1].reason.text = "Outside allowed roots"
                /\ pol_ret[1].reason.args = << >>

C3_Witness ==
    /\ pol_ret # << >>
    /\ pol_path = <<"etc", "passwd">>
    /\ pol_allowed = << << >> >>
    /\ pol_excluded = << <<"etc">> >>
    /\ pol_ret[1] = [ok |-> FALSE, reason |-> ExcludedReason(<<"etc">>)]

\* the positions of the input whose entry is kept: not None, and no earlier
\* entry has the same lower-cased canonical form
KeptPositions(values) ==
    { i \in 1..Len(values) :
        /\ values[i] # None
        /\ \A j \in 1..(i - 1) :
              values[j] # None => LowerKey(Clean(values[j])) # LowerKey(Clean(values[i])) }

FirstOccurrences(values) ==
    LET kept == KeptPositions(values)
        nth(k) == CHOOSE i \in kept : Cardinality({j \in kept : j < i}) = k - 1
    IN  [k \in 1..Cardinality(kept) |-> Clean(values[nth(k)])]

\* C4: normalise_paths returns no two entries that are equal when compared
\* case-insensitively, and its entries are in the order of their first
\* occurrence in the input.
C4_NoCaseDuplicatesFirstSeenOrder ==
    norm_ret # << >> =>
        LET out == norm_ret[1]
        IN  /\ \A i, j \in 1..Len(out) :
                  i # j => LowerKey(out[i]) # LowerKey(out[j])
            /\ out = FirstOccurrences(norm_in)

C4_Witness ==
    /\ norm_ret # << >>
    /\ Len(norm_in) = 3
    /\ Len(norm_ret[1]) = 2
    /\ \E i, j \in 1..Len(norm_in) :
          /\ i < j
          /\ norm_in[i] # None /\ norm_in[j] # None
          /\ Clean(norm_in[i]) # Clean(norm_in[j])
          /\ LowerKey(Clean(norm_in[i])) = LowerKey(Clean(norm_in[j]))

\* ------------------------------------------------- claims on the rebuild
Done == rb.pc = "done"
\* the call went past the check of the base directory
Ran == Done /\ rb.walk = << >> /\ "processed" \in DOMAIN rb.result[1]
Visits == {h.upserted[i] : i \in 1..Len(h.upserted)}
Candidates == {rb.candidates[i] : i \in 1..Len(rb.candidates)}

\* C5: after a rebuild that completed uncancelled, with the filesystem and
\* the policy unchanged, a second rebuild updates nothing, deletes no
\* FileRecord and leaves every FileRecord and ContentRecord as it was.
C5_SecondRebuildChangesNothing ==
    h.quiet = "second" =>
        /\ rb.updated = 0
        /\ h.deleted = {}
        /\ files = h.quiet_files
        /\ file_content = h.quiet_content

\* C6 as stated: a candidate is extracted and upserted exactly when it has
\* no stored FileRecord or its current (mtime, size) differs from the
\* stored pair (the disk untouched while the rebuild ran).
C6_ExtractedIffChangedAsStated ==
    (Ran /\ ~h.disturbed) =>
        \A c \in Candidates :
            LET before == h.at_entry[1].files
                changed == \/ c \notin DOMAIN before
                           \/ /\ fs[c].kind \in {"file", "locked"}
                              /\ <<before[c].mtime, before[c].size>> #
                                     <<MtimeOf(fs[c].ver), SizeOf(fs[c].ver)>>
            IN  (c \in h.extracted) <=> changed

\* C6 amended: a candidate the pass reaches and whose stat succeeds is
\* extracted and upserted exactly when it has no stored FileRecord or the
\* (mtime, size) read for it differs from the stored pair; a reached
\* candidate that is not extracted keeps its records as they were; and when
\* the rebuild has returned, the stored (mtime, size) and snippet of every
\* extracted candidate are the ones read and extracted for it.
C6_VisitedExtractedIffChanged ==
    \A e \in Visits :
        /\ e.stat_ok => (e.extracted <=> (~e.had_record \/ e.stored # e.stat))
        /\ ~e.extracted => (e.row_after = e.row /\ e.joined_after = e.joined)
        /\ (e.extracted /\ Done) =>
              /\ e.path \in DOMAIN files
              /\ <<files[e.path].mtime, files[e.path].size>> = e.stat
              /\ JoinedContent(files, file_content, e.path) = e.snippet

C6_Witness ==
    /\ Done
    /\ \E e \in Visits : e.extracted /\ e.had_record /\ e.stored[1] = e.stat[1]
    /\ \E e \in Visits : e.stat_ok /\ ~e.extracted

\* C7: an indexed file that is deleted from disk (also when the whole base
\* directory is removed) has no FileRecord and no ContentRecord once the
\* next rebuild_index call has returned.
C7_DeletedFileForgotten ==
    Done => \A f \in h.gone :
               /\ f \notin DOMAIN files
               /\ ~HasContentRecord(files, file_content, fts_available, f)

\* C8: a cancellation flag set while the rebuild is in its crawl or in its
\* candidate pass makes the rebuild return cancelled = true.
C8_CancelReported ==
    (Done /\ (h.cancel_in_crawl \/ h.cancel_in_pass)) => rb.result[1].cancelled

\* C9: when a cancelled rebuild has returned, every file it extracted and
\* upserted has a FileRecord with the (mtime, size) read for it and a
\* ContentRecord with the snippet extracted for it.
C9_CancelledKeepsUpserted ==
    (Done /\ rb.cancelled) =>
        \A e \in Visits :
            e.extracted =>
                /\ e.path \in DOMAIN files
                /\ files[e.path].mtime = e.stat[1]
                /\ files[e.path].size = e.stat[2]
                /\ JoinedContent(files, file_content, e.path) = e.snippet
                /\ HasContentRecord(files, file_content, fts_available, e.path)

C9_Witness ==
    /\ Done
    /\ rb.cancelled
    /\ \E e \in Visits : e.extracted /\ e.had_record
    /\ rb.idx < Len(rb.candidates)

\* ---------------------------------------------------- claims on the search
\* C10: search returns the empty list for a query that is empty, or empty
\* once its whitespace is trimmed, whatever the index holds, and does not
\* read the store for it.
C10_EmptyQueryEmptyResult ==
    (sr.pc = "done" /\ \A i \in 1..Len(sr.raw) : IsSpace(sr.raw[i])) =>
        /\ sr.result = << >>
        /\ sr.reads = 0

C10_Witness ==
    /\ sr.pc = "done"
    /\ sr.raw # << >>
    /\ \A i \in 1..Len(sr.raw) : IsSpace(sr.raw[i])
    /\ DOMAIN files # {}
    /\ sr.result = << >>

\* C11: search returns no file whose summed score is zero: every entry of
\* the returned list has a non-zero score.
C11_NoZeroScoreReturned ==
    sr.pc = "done" =>
        \A i \in 1..Len(sr.result) : ~FracEq(sr.result[i].score, Zero)

IsWordChar(c) == c \in {"a", "b", "d", "m", "w", "x", "1", "2", "3", "4"}

\* the word tokens of a text: its maximal runs of word characters
RECURSIVE WordRuns(_, _, _)
WordRuns(text, run, found) ==
    IF text = << >> THEN (IF run = << >> THEN found ELSE found \cup {run})
    ELSE IF IsWordChar(Head(text))
       THEN WordRuns(Tail(text), Append(run, Head(text)), found)
    ELSE WordRuns(Tail(text), << >>, IF run = << >> THEN found ELSE found \cup {run})

\* C13: for a query that holds a word token, every file whose stored
\* snippet contains that token gets a strictly positive content score.
C13_ContentHitScoresPositive ==
    [][ (sr.pc = "rank" /\ sr'.pc = "done") =>
          LET lower_query == Lower(sr.query)
              scores == ContentScores(files, file_content, fts_available,
                                      lower_query, Tokens(lower_query))
          IN  \A q \in DOMAIN sr.file_rows :
                  \A tok \in WordRuns(lower_query, << >>, {}) :
                      LET text == JoinedContent(files, file_content, q)
                      IN  (text # << >> /\ Contains(Lower(text[1]), tok)) =>
                              (q \in DOMAIN scores /\ scores[q].score > 0)
      ]_vars

\* the tier of a file name for a query: 4 equal to it, 3 starts with it,
\* 2 contains it, 1 resembles it only (similarity ratio of at least 0.6 for
\* a query of three characters or more), 0 none of these
NameTier(query, name) ==
    LET q == Lower(query)
        f == Lower(NameChars(name))
        m == MatchCount(q, 1, Len(q), f, 1, Len(f))
    IN  IF f = q THEN 4
        ELSE IF StartsWith(f, q) THEN 3
        ELSE IF Contains(f, q) THEN 2
        ELSE IF Len(q) >= 3 /\ 10 * m >= 3 * (Len(q) + Len(f)) THEN 1
        ELSE 0

\* C14: among files of one modification time and one depth, with no content
\* match, a name equal to the query scores higher than one that only starts
\* with it, which scores higher than one that only contains it, which
\* scores higher than one matched by the similarity ratio only.
C14_NameTiersStrict ==
    name_ret # << >> =>
        \A n1, n2 \in name_in[1].names :
            (NameTier(name_in[1].query, n1) > NameTier(name_in[1].query, n2)
             /\ NameTier(name_in[1].query, n2) > 0) =>
                FracLess(name_ret[1][n2].score, name_ret[1][n1].score)

C14_Witness ==
    /\ name_ret # << >>
    /\ \E n1, n2 \in name_in[1].names :
          /\ NameTier(name_in[1].query, n1) = 2
          /\ NameTier(name_in[1].query, n2) = 1
          /\ TokenHits(Tokens(Lower(name_in[1].query)), Lower(NameChars(n2))) > 0
          /\ FracLess(name_ret[1][n2].score, name_ret[1][n1].score)

\* C15: in every state of the store a content row exists exactly for the
\* file rows: every file row has its content row, and every content row is
\* the row of some file row.
C15_ContentIffFile ==
    /\ \A q \in DOMAIN files : files[q].id \in DOMAIN file_content
    /\ \A r \in DOMAIN file_content : \E q \in DOMAIN files : files[q].id = r

\* ----------------------------------------------- claims on the configuration
\* C16: after construction and after any update_policy the excluded paths
\* of the indexer hold every default excluded path.
C16_DefaultsAlwaysExcluded ==
    \A i \in 1..Len(DefaultExcludedPaths) :
        \E j \in 1..Len(excluded_paths) : excluded_paths[j] = Clean(DefaultExcludedPaths[i])

\* C17: after construction and after any update_policy max_file_size_mb
\* lies between 1 and 2048.
C17_SizeCeilingClamped == 1 <= max_file_size_mb /\ max_file_size_mb <= 2048

\* ---------------------------------------- further claims on the rebuild
\* the skip records of the run for a path
SkipsOf(path) == {i \in 1..Len(last_skipped) : last_skipped[i].path = path}

\* C18 as stated: when a rebuild has returned (uncancelled, the disk
\* untouched while it ran), every candidate larger than the ceiling has a
\* FileRecord, its file name as its snippet, and exactly one skip record of
\* the run, which is the one about the size.
C18_OversizedAsStated ==
    (Ran /\ ~h.disturbed /\ ~rb.cancelled /\ rb.event \notin events_set) =>
        \A c \in Candidates :
            (fs[c].kind \in {"file", "locked"} /\ SizeOf(fs[c].ver) > MaxFileSizeBytes) =>
                /\ c \in DOMAIN files
                /\ JoinedContent(files, file_content, c) = <<NameChars(NameOf(c))>>
                /\ Cardinality(SkipsOf(c)) = 1
                /\ \A i \in SkipsOf(c) : last_skipped[i].reason.text = SizeNote.text

\* C18 amended: when a rebuild has returned, every candidate it extracted
\* whose size read exceeds the ceiling has a FileRecord, has its file name
\* alone as its stored snippet (no text of any version of its body), was
\* not opened for reading, and has exactly one skip record of the run,
\* which names the ceiling.
C18_ExtractedOversizedByNameOnly ==
    Done =>
        \A e \in Visits :
            (e.extracted /\ e.stat[2] > MaxFileSizeBytes) =>
                /\ e.path \in DOMAIN files
                /\ e.snippet = <<NameChars(NameOf(e.path))>>
                /\ JoinedContent(files, file_content, e.path) = e.snippet
                /\ \A v \in Versions : ~Contains(e.snippet[1], BodyOf(e.path, v))
                /\ ~e.opened
                /\ Cardinality(SkipsOf(e.path)) = 1
                /\ \A i \in SkipsOf(e.path) :
                      /\ last_skipped[i].reason.text = SizeNote.text
                      /\ last_skipped[i].reason.args = <<max_file_size_mb>>

C18_Witness ==
    /\ Done
    /\ \E e \in Visits :
          /\ e.extracted
          /\ e.had_record
          /\ e.stat[2] > MaxFileSizeBytes
          /\ e.path \in DOMAIN files
          /\ Cardinality(SkipsOf(e.path)) = 1

\* C19: when an uncancelled rebuild has returned, the progress callback
\* was called exactly once for every candidate, in the order of
\* enumeration, with (index, total, path), index running from 1 to total.
C19_ProgressForEveryCandidate ==
    (Ran /\ ~rb.cancelled /\ rb.event \notin events_set) =>
        progress = [i \in 1..Len(rb.candidates) |->
                       <<i, Len(rb.candidates), rb.candidates[i]>>]

\* C20: every value rebuild_index returns carries total_scanned, updated,
\* processed, skipped, errors and cancelled.
C20_ResultCarriesEveryField ==
    Done =>
        {"total_scanned", "updated", "processed", "skipped", "errors", "cancelled"}
            \subseteq DOMAIN rb.result[1]

\* ------------------------------------- claims on failures and the crawl
\* the error records of the run for a path
ErrorsOf(path) == {i \in 1..Len(last_errors) : last_errors[i].path = path}

\* the visit ended in a failure: the stat raised, or the read of the
\* content raised
Failed(e) ==
    \/ ~e.stat_ok
    \/ e.note # NoNote /\ e.note[1].text = ReadErrorNote.text

\* C21: when a rebuild has returned, every candidate whose stat or whose
\* read failed has an error record of the run and no skip record, the
\* result counts the error records as errors, and an uncancelled run has
\* processed every candidate.
C21_FailuresRecordedAsErrors ==
    Ran =>
        /\ \A e \in Visits :
               Failed(e) => ErrorsOf(e.path) # {} /\ SkipsOf(e.path) = {}
        /\ rb.result[1].errors = Len(last_errors)
        /\ (~rb.cancelled) => rb.processed = Len(rb.candidates)

\* the decoder a candidate is read through, << >> when it needs none
DecoderOf(path) ==
    IF SuffixOf(path) = ".pdf" THEN <<"fitz">>
    ELSE IF SuffixOf(path) = ".docx" THEN <<"docx">>
    ELSE << >>

\* the decoder of the candidate is not installed
DecoderMissing(path) == DecoderOf(path) # << >> /\ DecoderOf(path)[1] \notin decoders

UnavailableTexts == {PdfUnavailableNote.text, DocxUnavailableNote.text}

\* C22 as stated: when a rebuild has returned (uncancelled, the disk
\* untouched while it ran), every PDF or DOCX candidate whose decoder is
\* not installed has a FileRecord, its file name as its snippet, exactly
\* one skip record of the run, which says that extraction is unavailable,
\* and no error record.
C22_DecoderMissingAsStated ==
    (Ran /\ ~h.disturbed /\ ~rb.cancelled /\ rb.event \notin events_set) =>
        \A c \in Candidates :
            DecoderMissing(c) =>
                /\ c \in DOMAIN files
                /\ JoinedContent(files, file_content, c) = <<NameChars(NameOf(c))>>
                /\ Cardinality(SkipsOf(c)) = 1
                /\ \A i \in SkipsOf(c) : last_skipped[i].reason.text \in UnavailableTexts
                /\ ErrorsOf(c) = {}

\* C22 amended: when a rebuild has returned, every PDF or DOCX candidate it
\* extracted whose decoder is not installed and whose size is within the
\* ceiling has a FileRecord, its file name alone as its stored snippet,
\* was not opened, has exactly one skip record of the run, naming the
\* missing extraction of its format, and no error record; an uncancelled
\* run has processed every candidate.
C22_ExtractedWithoutDecoderByNameOnly ==
    Done =>
        /\ \A e \in Visits :
               (e.extracted /\ DecoderMissing(e.path) /\ e.stat[2] <= MaxFileSizeBytes) =>
                   /\ e.path \in DOMAIN files
                   /\ e.snippet = <<NameChars(NameOf(e.path))>>
                   /\ JoinedContent(files, file_content, e.path) = e.snippet
                   /\ ~e.opened
                   /\ Cardinality(SkipsOf(e.path)) = 1
                   /\ \A i \in SkipsOf(e.path) :
                         last_skipped[i].reason =
                             IF e.path = PdfFile THEN PdfUnavailableNote
                                                 ELSE DocxUnavailableNote
                   /\ ErrorsOf(e.path) = {}
        /\ (Ran /\ ~rb.cancelled) => rb.processed = Len(rb.candidates)

C22_Witness ==
    /\ Ran
    /\ \E e \in Visits :
          /\ e.extracted
          /\ e.path = PdfFile
          /\ DecoderMissing(e.path)
          /\ e.stat[2] <= MaxFileSizeBytes
          /\ Cardinality(SkipsOf(e.path)) = 1
    /\ Cardinality(Visits) >= 2
    /\ rb.processed = Len(rb.candidates)

\* the policy of the indexer admits the path
Admitted(path) == CheckAllowed(path, allowed_roots, excluded_paths).ok

\* every candidate has an indexed extension and is admitted by the policy
CandidatesAdmitted ==
    \A c \in Candidates : SuffixOf(c) \in ALLOWED_EXTENSIONS /\ Admitted(c)

C24_EveryRejectionRecordedOnce ==
    Ran =>
        \A x \in h.rejected :
            /\ Cardinality(SkipsOf(x)) = 1
            /\ \A i \in SkipsOf(x) : last_skipped[i].reason # NoReason

\* ------------------------------------------- claims on the base path
\* C25: a set_base_path call whose resolved path the policy denies raises
\* PermissionError, one whose resolved path is admitted but does not exist
\* raises FileNotFoundError, and either leaves the base path in memory and
\* the stored base_path as they were.
C25_DeniedBaseRaisesAndKeeps ==
    h.set_base # << >> =>
        LET call == h.set_base[1]
            denied == ~Admitted(Clean(call.path))
        IN  /\ denied => call.raised = "PermissionError"
            /\ (~denied /\ ~call.existed) => call.raised = "FileNotFoundError"
            /\ (denied \/ ~call.existed) => call.after = call.before

C25_Witness ==
    /\ h.set_base # << >>
    /\ h.set_base[1].raised = "PermissionError"
    /\ "base_path" \in DOMAIN metadata
    /\ metadata["base_path"] = DocsDir
    /\ base_path = DocsDir
    /\ h.set_base[1].after = h.set_base[1].before

\* ------------------------------------------------- claims on the lock
\* C26: every access to the database connection and to the diagnostic
\* buffers that a step of rebuild_index or of search makes is made inside
\* a block that holds the lock of the indexer.
C26_EveryAccessUnderLock ==
    [][ /\ rb' # rb => \A a \in RebuildAccess(rb.pc) : a.locked
        /\ sr' # sr => \A a \in SearchAccess(sr.pc) : a.locked ]_vars

\* ---------------------------------------------- claims on the watcher
\* C27: when the handler of a delete notification for an indexed file has
\* returned, the index store holds neither a FileRecord nor a
\* ContentRecord of the file; when the handler of a create or modify
\* notification for a file of the base directory has returned, the store
\* holds a FileRecord of the file with the mtime and size of the disk.
C27_NotificationsReachTheStore ==
    h.handled # << >> =>
        LET e == h.handled[1]
        IN  /\ (e.kind = "deleted" /\ e.had_record) =>
                   ~e.has_record /\ ~e.has_content
            /\ (e.kind \in {"created", "modified"} /\ e.stat # << >>) =>
                   /\ e.has_record
                   /\ e.row_after[1].mtime = e.stat[1]
                   /\ e.row_after[1].size = e.stat[2]

\* ------------------------------------- claims on the started rebuild
\* C28: a start request returns while the rebuild has yet to run; at most
\* one started thread is alive and a running rebuild is the one of that
\* thread; and every thread that has ended has handed the result of its
\* rebuild to the completion callback, once: the callbacks run and pending
\* are as many as the threads ended, and the last one run carries the
\* result of the last rebuild.
C28_OneRebuildOneCompletion ==
    /\ manual_index_thread.started - manual_index_thread.returned \in {0, 1}
    /\ manual_index_thread.returned <= rebuilds
    /\ rebuilds <= manual_index_thread.started
    /\ ~Returned => IsAlive(manual_index_thread)
    /\ Len(index_complete) + Len(after_queue) = manual_index_thread.returned
    /\ (Done /\ Len(index_complete) = rebuilds) =>
           index_complete[rebuilds] = rb.result[1]

\* --------------------------------------------- claims on the metadata
\* the writes the rebuild made of a metadata key
WritesOf(key) == {i \in 1..Len(h.meta_writes) : h.meta_writes[i] = key}

\* C29: when a rebuild that ran has returned, it has written last_indexed
\* once and document_count once, the document_count stored is the number
\* of FileRecords in the store, written as a decimal, and the documents of
\* the result is that number.
C29_CountWrittenOnceAndExact ==
    Ran =>
        /\ Cardinality(WritesOf("last_indexed")) = 1
        /\ Cardinality(WritesOf("document_count")) = 1
        /\ metadata["document_count"] = ToString(Cardinality(DOMAIN files))
        /\ rb.result[1].documents = Cardinality(DOMAIN files)

C29_Witness ==
    /\ Ran
    /\ rebuilds = 2
    /\ h.deleted # {}
    /\ Cardinality(DOMAIN files) = 1
    /\ metadata["document_count"] = "1"
    /\ rb.result[1].documents = 1

\* ------------------------------------ claims on unresolvable entries
\* an entry normalise_paths cannot resolve
Unresolvable(p) ==
    /\ p # None
    /\ \/ ExpanduserRaises(p)
       \/ IsRelative(Expanduser(p)) /\ cwd = Gone

\* a canonical path: anchored at the root, no "~", no "..", no link
Canonical(p) ==
    /\ ~IsRelative(p)
    /\ Expanduser(p) = p
    /\ ~ExpanduserRaises(p)
    /\ ResolveFrom(<< >>, p) = p

\* C30: normalise_paths raises no error for an entry it cannot resolve,
\* and every entry of the list it returns is a canonical path.
C30_UnresolvableDroppedSilently ==
    /\ pol_op # "raised"
    /\ norm_ret # << >> =>
           \A i \in 1..Len(norm_ret[1]) : Canonical(norm_ret[1][i])

\* ------------------------------------- claims on the cancelled rebuild
\* a file the crawl would take: it is on disk, has an indexed extension
\* and the policy admits it
Eligible(f) ==
    /\ fs[f].kind = "file"
    /\ SuffixOf(f) \in ALLOWED_EXTENSIONS
    /\ Admitted(f)

\* C31: when a rebuild that was cancelled has returned (the disk untouched
\* while it ran), every file that had a FileRecord at its entry, is still
\* on disk and eligible, and was not visited by the pass, still has its
\* FileRecord and its ContentRecord as they were.
C31_CancelledKeepsUnvisited ==
    (Ran /\ rb.cancelled /\ ~h.disturbed) =>
        \A f \in DOMAIN h.at_entry[1].files :
            (Eligible(f) /\ f \notin rb.seen_paths) =>
                /\ f \in DOMAIN files
                /\ files[f] = h.at_entry[1].files[f]
                /\ JoinedContent(files, file_content, f) =
                       JoinedContent(h.at_entry[1].files,
                                     h.at_entry[1].file_content, f)

\* ------------------------------------------ claims on the content rows
\* the content rows that belong to the file row of path q: the row at the
\* id of the file row, and under the full-text backend the rows that carry
\* the path
ContentRowsOf(q) ==
    {r \in DOMAIN file_content :
        \/ q \in DOMAIN files /\ files[q].id = r
        \/ fts_available /\ file_content[r].path = q}

\* no content row is joined to the file row of another path
NoCrossJoin ==
    fts_available =>
        \A q \in DOMAIN files :
            files[q].id \in DOMAIN file_content =>
                file_content[files[q].id].path = q

\* C32: in every state of the store, under either backend, every file row
\* has exactly one content row, at its current id; no content row is left
\* at an id that is not the id of a file row; and no content row is joined
\* to the file row of another path.
C32_OneContentRowAtCurrentId ==
    /\ \A q \in DOMAIN files :
           /\ files[q].id \in DOMAIN file_content
           /\ ContentRowsOf(q) = {files[q].id}
    /\ \A r \in DOMAIN file_content :
           \E q \in DOMAIN files : files[q].id = r
    /\ NoCrossJoin

\* ------------------------------------------ claims on the result counters
\* the relations between the counters of a result that carries them all
CountersAgree(r) ==
    /\ r.updated <= r.processed
    /\ r.processed <= r.total_scanned
    /\ r.processed = Cardinality(Visits)
    /\ r.updated = Cardinality({e \in Visits : e.extracted})
    /\ r.errors = Cardinality({e \in Visits : ~e.stat_ok})
    /\ ~r.cancelled => r.processed = r.total_scanned

\* the relations hold in the result of every call that went past the check
\* of the base directory
CountersAgreeWhenRan == Ran => CountersAgree(rb.result[1])

\* C33: every result of rebuild_index carries updated, processed and
\* total_scanned with updated <= processed <= total_scanned; processed is
\* the number of candidates visited, errors the number of visited
\* candidates whose stat failed, and processed = total_scanned when the
\* result is not cancelled.
C33_CountersInEveryResult ==
    Done =>
        /\ {"updated", "processed", "total_scanned", "errors", "cancelled"}
               \subseteq DOMAIN rb.result[1]
        /\ CountersAgree(rb.result[1])

\* ------------------------------------------ claims on the cancellation
\* C34: a cancel_indexing() made after rebuild_index was entered with an
\* existing base directory and before the pass has examined its last
\* candidate makes that rebuild return cancelled = true, also when it is
\* made before the rebuild has installed and cleared its event.
C34_CancelNeverLost ==
    (Ran /\ h.cancel_in_call) => rb.result[1].cancelled

\* ------------------------------------------- claims on the failed stat
\* the content rows that carry or are joined to path q, in a given store
RowsOfIn(table, content, q) ==
    {r \in DOMAIN content :
        \/ q \in DOMAIN table /\ table[q].id = r
        \/ fts_available /\ content[r].path = q}

\* C35: when a rebuild has returned, a candidate whose stat failed has the
\* FileRecord and the content rows it had when the rebuild was entered,
\* unchanged, and has none when it had none.
C35_FailedStatLeavesRecords ==
    Ran =>
        \A e \in Visits :
            ~e.stat_ok =>
                LET before == h.at_entry[1]
                    q == e.path
                IN  /\ (q \in DOMAIN files) <=> (q \in DOMAIN before.files)
                    /\ q \in DOMAIN files => files[q] = before.files[q]
                    /\ RowsOfIn(files, file_content, q) =
                           RowsOfIn(before.files, before.file_content, q)
                    /\ \A r \in RowsOfIn(files, file_content, q) :
                           file_content[r] = before.file_content[r]

C35_Witness ==
    /\ Ran
    /\ \E e \in Visits :
          /\ ~e.stat_ok
          /\ e.had_record
          /\ e.path \in DOMAIN files
          /\ JoinedContent(files, file_content, e.path) # << >>
    /\ \E e \in Visits : e.extracted

\* ------------------------------------- claims on the records and the policy
\* the policy and the base directory are those the last rebuild was
\* entered with
PolicyAsAtEntry ==
    /\ allowed_roots = h.at_entry[1].allowed_roots
    /\ excluded_paths = h.at_entry[1].excluded_paths
    /\ GetBasePath = h.at_entry[1].base

\* C36: when a rebuild over an existing base directory has returned,
\* cancelled or not, and the policy and the base are still those it ran
\* with, every FileRecord has an indexed extension, lies under the base
\* directory and is admitted by the policy.
C36_RecordsAdmittedAfterRebuild ==
    (Ran /\ PolicyAsAtEntry) =>
        \A q \in DOMAIN files :
            /\ SuffixOf(q) \in ALLOWED_EXTENSIONS
            /\ RelativeTo(q, GetBasePath)
            /\ Admitted(q)

C36_Witness ==
    /\ Ran
    /\ PolicyAsAtEntry
    /\ rebuilds = 2
    /\ ReportFile \in h.deleted
    /\ fs[ReportFile].kind = "file"
    /\ ~Admitted(ReportFile)
    /\ NotesFile \in DOMAIN files

\* ------------------------------------------ claims on path containment
\* the components of parent are the first components of path, one by one
ComponentPrefix(parent, path) ==
    /\ Len(parent) <= Len(path)
    /\ \A i \in 1..Len(parent) : path[i] = parent[i]

\* some entry of seq, resolved, is a component prefix of the resolved path
PrefixedBySome(path, seq) ==
    \E i \in 1..Len(seq) : ComponentPrefix(Clean(seq[i]), Clean(path))

\* C37: is_allowed admits a path exactly when no excluded entry is a
\* component prefix of it and some allowed root is, both sides resolved; a
\* path equal to an entry counts as under it, and a sibling whose name only
\* begins with the name of an entry (/etcetera beside /etc) does not.
C37_ContainmentByComponents ==
    pol_ret # << >> =>
        /\ pol_ret[1].ok <=>
               (~PrefixedBySome(pol_path, pol_excluded)
                   /\ PrefixedBySome(pol_path, pol_allowed))
        /\ (pol_path = <<"etcetera">> /\ pol_allowed = << <<"etc">> >>) =>
               ~pol_ret[1].ok
        /\ (pol_path = <<"etcetera">> /\ pol_allowed = << << >> >>
                /\ pol_excluded = << <<"etc">> >>) => pol_ret[1].ok
        /\ (pol_path = <<"etc">> /\ pol_allowed = << <<"etc">> >>
                /\ pol_excluded = << >>) => pol_ret[1].ok

C37_Witness ==
    /\ pol_ret # << >>
    /\ pol_path = <<"etcetera">>
    /\ pol_excluded = << <<"etc">> >>
    /\ pol_allowed = << <<"home">>, << >> >>
    /\ pol_ret[1].ok

\* ------------------------------- claims on a search beside a rebuild
\* C38: every entry a search returns carries a path of the file rows it
\* read, with the mtime and the size of that row; a content hit for a path
\* that is not among them gives no entry; and a search fails only for a
\* query that holds a backslash, under the full-text backend, whatever the
\* rebuild does beside it.
C38_EntriesFromTheFileRowsRead ==
    /\ sr.pc = "done" =>
           \A i \in 1..Len(sr.result) :
               LET e == sr.result[i]
               IN  /\ e.path \in DOMAIN sr.file_rows
                   /\ e.modified = sr.file_rows[e.path].mtime
                   /\ e.size_bytes = sr.file_rows[e.path].size
    /\ sr.pc = "raised" =>
           /\ fts_available
           /\ \E j \in 1..Len(sr.query) : sr.query[j] = "\\"

C38_Witness ==
    /\ sr.pc = "done"
    /\ sr.reads = 2
    /\ sr.result # << >>
    /\ \E q \in sr.hits : q \notin DOMAIN sr.file_rows
    /\ \A i \in 1..Len(sr.result) : sr.result[i].path \notin sr.hits

\* C39: close() called while a rebuild or a search is in progress on
\* another thread never makes that operation use a closed or absent
\* connection: no store operation is attempted after the connection has
\* been set to none
C39_NoStoreUseAfterClose == h.closed_use = {}

\* a rebuild_index call is made while its base directory does not exist
MissingBaseCall ==
    /\ rebuilds' = rebuilds + 1
    /\ ~base_exists
    /\ h'.at_entry[1].base \in {BasePath, DocsDir}

\* C40: rebuild_index called when the base path does not exist changes
\* nothing: no file record or content record is added, updated or deleted,
\* the metadata is not written, the last-run diagnostic buffers are not
\* reset, the installed cancellation flag is left as it was, and the call
\* is over
C40_MissingBaseChangesNothing ==
    [][MissingBaseCall =>
          /\ UNCHANGED <<files, file_content, metadata, last_skipped, last_errors,
                         cancel_event, events_set>>
          /\ rb'.pc = "done"
          /\ rb'.result[1].documents = 0
          /\ ~rb'.result[1].cancelled]_vars

\* such a call has returned on a store that holds records, metadata and
\* diagnostics of an earlier run, with the installed flag still set
C40_Witness ==
    /\ Done
    /\ ~Ran
    /\ ~base_exists
    /\ rebuilds = 2
    /\ files # << >>
    /\ file_content # << >>
    /\ "last_indexed" \in DOMAIN metadata
    /\ last_skipped # << >> \/ last_errors # << >>
    /\ cancel_event \in events_set
    /\ h.at_entry[1].files = files

====
